---- MODULE Spec2Model ----
(***************************************************************************)
(* Book catalog of the school reading tracker: CSV import                  *)
(* (book_import_service.py), the admin handlers that add or rename books   *)
(* (bookapp/app.py), and the CSV record merge (bookapp/csv_cli.py).        *)
(*                                                                         *)
(* Text that is normalised (title, author) is a sequence of one-character  *)
(* strings; every other text column is a TLA+ string.  Python's None is    *)
(* NoText for the former and NULL for the latter; an optional integer is a *)
(* sequence of length 0 (None) or 1.                                       *)
(***************************************************************************)
EXTENDS Integers, Sequences, FiniteSets, TLC

VARIABLES books, imp, fn

vars == <<books, imp, fn>>

\* ------------------------------------------------------------------------
\* Bounds
\* ------------------------------------------------------------------------
MaxRows == 2

MaxBooks == 2

\* ------------------------------------------------------------------------
\* Text
\* ------------------------------------------------------------------------
NULL == "NULL"

NoText == <<"NULL">>

UpperChars == <<"A", "B", "C", "D", "E", "F", "G", "H", "I", "J", "K", "L", "M",
                "N", "O", "P", "Q", "R", "S", "T", "U", "V", "W", "X", "Y", "Z">>

LowerChars == <<"a", "b", "c", "d", "e", "f", "g", "h", "i", "j", "k", "l", "m",
                "n", "o", "p", "q", "r", "s", "t", "u", "v", "w", "x", "y", "z">>

Digits == {"0", "1", "2", "3", "4", "5", "6", "7", "8", "9"}

\* str.lower() on one character
LowerChar(c) ==
    IF \E k \in 1..Len(UpperChars) : UpperChars[k] = c
    THEN LowerChars[CHOOSE k \in 1..Len(UpperChars) : UpperChars[k] = c]
    ELSE c

\* regex class \w : letters, digits and the underscore
IsWordChar(c) ==
    \/ \E k \in 1..Len(UpperChars) : UpperChars[k] = c \/ LowerChars[k] = c
    \/ c \in Digits
    \/ c = "_"

\* regex class \s
IsSpaceChar(c) == c \in {" ", "\t"}

RECURSIVE FilterWordSpace(_)
\* re.sub(r'[^\w\s]', '', s)
FilterWordSpace(s) ==
    IF s = <<>> THEN <<>>
    ELSE IF IsWordChar(Head(s)) \/ IsSpaceChar(Head(s))
         THEN <<Head(s)>> \o FilterWordSpace(Tail(s))
         ELSE FilterWordSpace(Tail(s))

RECURSIVE CollapseSpace(_)
\* re.sub(r'\s+', ' ', s)
CollapseSpace(s) ==
    IF s = <<>> THEN <<>>
    ELSE IF IsSpaceChar(Head(s))
         THEN IF Tail(s) # <<>> /\ IsSpaceChar(Head(Tail(s)))
              THEN CollapseSpace(Tail(s))
              ELSE <<" ">> \o CollapseSpace(Tail(s))
         ELSE <<Head(s)>> \o CollapseSpace(Tail(s))

RECURSIVE LStrip(_)
LStrip(s) ==
    IF s # <<>> /\ IsSpaceChar(Head(s)) THEN LStrip(Tail(s)) ELSE s

RECURSIVE RStrip(_)
RStrip(s) ==
    IF s # <<>> /\ IsSpaceChar(s[Len(s)]) THEN RStrip(SubSeq(s, 1, Len(s) - 1)) ELSE s

\* str.strip()
Strip(s) == RStrip(LStrip(s))

Lower(s) == [k \in 1..Len(s) |-> LowerChar(s[k])]

normalize_text_StripFirst(text) ==
    IF text = NoText \/ text = <<>> THEN <<>>
    ELSE FilterWordSpace(Strip(CollapseSpace(Lower(text))))

\* BookImportService.normalize_text
normalize_text(text) ==
    IF text = NoText \/ text = <<>> THEN <<>>
    ELSE Strip(CollapseSpace(FilterWordSpace(Lower(text))))

\* `x or ''` on a text column read from the CSV row
OrEmpty(s) == IF s = NoText THEN <<>> ELSE s

\* Python truthiness of a string column
Falsy(v) == v = NULL \/ v = ""

\* ------------------------------------------------------------------------
\* Book rows and the uniqueness constraints of the book table
\* ------------------------------------------------------------------------
\* Book(...) as constructed from a CSV row: the columns the constructor is
\* not given stay None
NewBook(title, author) ==
    [title |-> title, author |-> author, isbn |-> NULL, openlibrary_id |-> NULL,
     book_type |-> NULL, genre |-> NULL, sub_genre |-> NULL, topic |-> NULL,
     lexile_rating |-> NULL, grade |-> <<>>, owned |-> NULL, description |-> NULL,
     cover_url |-> NULL, publication_year |-> NULL]

\* UniqueConstraint('author', 'title'): SQL NULLs never collide
UqAuthorTitle(b1, b2) ==
    /\ b1.author # NoText /\ b1.title # NoText
    /\ b1.author = b2.author /\ b1.title = b2.title

\* isbn = db.Column(db.String(13), unique=True)
UqIsbn(b1, b2) == b1.isbn # NULL /\ b1.isbn = b2.isbn

Conflict(b1, b2) == UqAuthorTitle(b1, b2) \/ UqIsbn(b1, b2)

SeqRange(s) == {s[k] : k \in 1..Len(s)}

\* INSERTing ins (in order) into a table holding tbl raises IntegrityError
InsertFails(tbl, ins) ==
    \/ \E k \in 1..Len(ins) : \E b \in SeqRange(tbl) : Conflict(ins[k], b)
    \/ \E k, l \in 1..Len(ins) : k < l /\ Conflict(ins[k], ins[l])

\* ------------------------------------------------------------------------
\* OpenLibrary lookups (outcomes of the network calls are inputs)
\* ------------------------------------------------------------------------
\* OpenLibraryService.get_book_by_isbn: None on any failure, else a dict.
\* A key the dict lacks reads as the default of the .get() that reads it.
NoIsbnData == [found |-> FALSE, title |-> <<>>, author |-> <<>>, openlibrary_id |-> "",
               description |-> "", cover_url |-> "", publication_year |-> "", genre |-> ""]

IsbnData(title, author, genre, cover) ==
    [found |-> TRUE, title |-> title, author |-> author, openlibrary_id |-> "/books/OL1M",
     description |-> "olDesc", cover_url |-> cover, publication_year |-> "2008",
     genre |-> genre]

IsbnResults ==
    {NoIsbnData,
     IsbnData(<<"b">>, <<"x">>, "Dystopia, Survival", "cover1"),
     IsbnData(<<"a">>, <<>>, "", "")}

\* OpenLibraryService.search_books(...)[0] in enrich_book_from_openlibrary:
\* "none" is a failed or empty search (IndexError, caught), "work" is an
\* OpenLibraryWork instance
SearchResults == {"none", "work"}

\* if not book.title / if not book.author (import_from_csv, ISBN branch)
FillText(cur, new) == IF cur = <<>> \/ cur = NoText THEN new ELSE cur

FillGenre_Overwrite(cur, new) == IF ~Falsy(new) THEN new ELSE cur

\* if not book.genre and ol_data.get('genre')
FillGenre(cur, new) == IF Falsy(cur) /\ ~Falsy(new) THEN new ELSE cur

\* import_from_csv, `if ol_data:` block
IsbnEnrich(book, ol) ==
    IF ~ol.found THEN book
    ELSE [book EXCEPT
            !.title = FillText(@, ol.title),
            !.author = FillText(@, ol.author),
            !.openlibrary_id = ol.openlibrary_id,
            !.description = ol.description,
            !.cover_url = ol.cover_url,
            !.publication_year = ol.publication_year,
            !.genre = FillGenre(@, ol.genre)]

\* enrich_book_from_openlibrary: nothing to do when every enrichable column
\* is set; a failed search returns False; a found work is an OpenLibraryWork,
\* which has no .get, so `ol_data.get('subjects')` raises AttributeError
\* before any column is assigned.
enrich_book_from_openlibrary(b, sr) ==
    IF /\ ~Falsy(b.book_type) /\ ~Falsy(b.genre) /\ ~Falsy(b.sub_genre)
       /\ ~Falsy(b.publication_year) /\ ~Falsy(b.cover_url) /\ ~Falsy(b.openlibrary_id)
    THEN [book |-> b, raised |-> FALSE, changed |-> FALSE]
    ELSE IF sr = "none"
         THEN [book |-> b, raised |-> FALSE, changed |-> FALSE]
         ELSE [book |-> b, raised |-> TRUE, changed |-> FALSE]

\* ------------------------------------------------------------------------
\* CSV rows
\* ------------------------------------------------------------------------
DigitVal(c) ==
    CASE c = "0" -> 0 [] c = "1" -> 1 [] c = "2" -> 2 [] c = "3" -> 3 [] c = "4" -> 4
      [] c = "5" -> 5 [] c = "6" -> 6 [] c = "7" -> 7 [] c = "8" -> 8 [] c = "9" -> 9

RECURSIVE DecVal(_)
DecVal(s) == IF s = <<>> THEN 0 ELSE DecVal(SubSeq(s, 1, Len(s) - 1)) * 10 + DigitVal(s[Len(s)])

PyInt_LastDigit(s) ==
    IF s # <<>> /\ s[Len(s)] \in Digits
    THEN [ok |-> TRUE, val |-> DigitVal(s[Len(s)])]
    ELSE [ok |-> FALSE, val |-> 0]

\* int(grade_raw): ok is FALSE where int() raises ValueError
PyInt(s) ==
    LET body == IF s # <<>> /\ Head(s) \in {"-", "+"} THEN Tail(s) ELSE s
        neg == s # <<>> /\ Head(s) = "-"
    IN IF body # <<>> /\ \A k \in 1..Len(body) : body[k] \in Digits
       THEN [ok |-> TRUE, val |-> IF neg THEN 0 - DecVal(body) ELSE DecVal(body)]
       ELSE [ok |-> FALSE, val |-> 0]

OwnedAccepted == {"Physical", "Kindle", "Not Owned"}

CsvRow(title, author, isbn, genre, grade, owned) ==
    [title |-> title, author |-> author, isbn |-> isbn, book_type |-> "",
     genre |-> genre, sub_genre |-> "", topic |-> "", lexile_rating |-> "",
     grade |-> grade, owned |-> owned]

T1 == <<"a", " ", "b">>

\* T1 in another casing, spacing and punctuation
T2 == <<"A", " ", " ", "b", "!">>

\* punctuation only
T3 == <<"!">>

TitleInputs == {T1, T2, T3, <<>>}

AuthorInputs == {<<"x">>, <<>>}

\* the rows a batch is drawn from: every title and author above with blank
\* optional columns, and rows exercising the optional columns
RowInputs ==
    {CsvRow(t, a, "", "", <<>>, "") : t \in TitleInputs, a \in AuthorInputs}
    \cup {CsvRow(T1, <<"x">>, "i1", "Fantasy", <<"7">>, "Kindle"),
          CsvRow(T3, <<"x">>, "i1", "", <<>>, ""),
          CsvRow(<<>>, <<"x">>, "i1", "", <<>>, "Physical"),
          CsvRow(T1, <<"x">>, "", "", <<"1", "3">>, ""),
          CsvRow(T1, <<"x">>, "", "", <<"x">>, ""),
          CsvRow(T1, <<"x">>, "", "", <<>>, "Audible"),
          CsvRow(T1, <<"x">>, NULL, "", <<>>, "")}

\* the rows of two racing imports
RaceRows ==
    {CsvRow(T1, <<"x">>, "", "", <<>>, ""),
     CsvRow(T2, <<"x">>, "", "", <<>>, ""),
     CsvRow(<<"b">>, <<"x">>, "", "", <<>>, "")}

\* ------------------------------------------------------------------------
\* BookImportService.import_from_csv
\* ------------------------------------------------------------------------
Imports == {1, 2}

\* an import that has not been called; result is the dict import_from_csv
\* builds, pending/flushed/failed are its db.session (objects added and not
\* yet flushed, rows INSERTed in the open transaction, transaction rolled
\* back by a failed flush).  ok_rows and persisted record, for the
\* properties only, the rows counted as successes (with the Book built for
\* them) and the row numbers committed.
IdleImport ==
    [pc |-> "idle", debug |-> FALSE, has_cols |-> TRUE, nrows |-> 0, row |-> 0,
     pending |-> <<>>, flushed |-> <<>>, failed |-> FALSE,
     success_count |-> 0, error_count |-> 0, errors |-> <<>>,
     ok_rows |-> <<>>, persisted |-> <<>>]

BooksOf(entries) == [k \in 1..Len(entries) |-> entries[k].book]

RowsOf(entries) == [k \in 1..Len(entries) |-> entries[k].row]

RecordError_NoCount(r, row_num, kind) ==
    [r EXCEPT !.errors = Append(@, [row |-> row_num, kind |-> kind])]

\* result['errors'].append(f"Row {row_num}: ..."); result['error_count'] += 1
RecordError(r, row_num, kind) ==
    [r EXCEPT !.errors = Append(@, [row |-> row_num, kind |-> kind]),
              !.error_count = @ + 1]

\* result['success_count'] += 1
RecordSuccess(r, row_num, book) ==
    [r EXCEPT !.success_count = @ + 1,
              !.ok_rows = Append(@, [row |-> row_num, book |-> book])]

\* the flush a query or a commit starts with: the pending objects are
\* INSERTed; a failed INSERT rolls the session's transaction back and leaves
\* the session unusable until rollback()
Flush(r, tbl) ==
    IF r.failed \/ r.pending = <<>> THEN r
    ELSE IF InsertFails(tbl \o BooksOf(r.flushed), BooksOf(r.pending))
         THEN [r EXCEPT !.failed = TRUE, !.pending = <<>>, !.flushed = <<>>]
         ELSE [r EXCEPT !.flushed = @ \o r.pending, !.pending = <<>>]

\* the duplicate scan over Book.query.all()
FindDuplicate(all_books, title_normalized, author_normalized) ==
    {k \in 1..Len(all_books) :
        /\ normalize_text(all_books[k].title) = title_normalized
        /\ normalize_text(all_books[k].author) = author_normalized}

\* the Book built from the row (grade_val already parsed)
BookFromRow(row, grade_val, owned_val) ==
    [title |-> Strip(row.title), author |-> Strip(row.author),
     isbn |-> IF row.isbn = "" THEN NULL ELSE row.isbn,
     openlibrary_id |-> NULL,
     book_type |-> IF row.book_type = "" THEN NULL ELSE row.book_type,
     genre |-> row.genre,
     sub_genre |-> IF row.sub_genre = "" THEN NULL ELSE row.sub_genre,
     topic |-> row.topic, lexile_rating |-> row.lexile_rating,
     grade |-> grade_val, owned |-> owned_val, description |-> NULL,
     cover_url |-> NULL, publication_year |-> NULL]

AddBook_Always(r, row_num, book) ==
    [r EXCEPT !.pending = Append(@, [row |-> row_num, book |-> book])]

\* db.session.add(book) unless debug
AddBook(r, row_num, book) ==
    IF r.debug THEN r
    ELSE [r EXCEPT !.pending = Append(@, [row |-> row_num, book |-> book])]

\* the loop body from the enrichment on
EnrichValidateAdd(r, row_num, book0, ol, sr) ==
    LET en == IF ~Falsy(book0.isbn)
              THEN [book |-> IsbnEnrich(book0, ol), raised |-> FALSE, changed |-> FALSE]
              ELSE enrich_book_from_openlibrary(book0, sr)
    IN IF en.raised THEN RecordError(r, row_num, "enrich_exception")
       ELSE IF en.book.title = <<>> \/ en.book.title = NoText
            THEN RecordError(r, row_num, "title_required")
            ELSE RecordSuccess(AddBook(r, row_num, en.book), row_num, en.book)

\* the loop body after the duplicate check: isbn, grade, owned, Book(...)
ParseRow(r, row_num, row, ol, sr) ==
    LET grade_raw == Strip(row.grade)
        g == PyInt(grade_raw)
        owned_val == IF Falsy(row.owned) THEN "Not Owned" ELSE row.owned
    IN IF row.isbn = NULL THEN RecordError(r, row_num, "row_exception")
       ELSE IF grade_raw # <<>> /\ ~g.ok THEN RecordError(r, row_num, "invalid_grade")
       ELSE IF grade_raw # <<>> /\ (g.val < 1 \/ g.val > 12)
            THEN RecordError(r, row_num, "invalid_grade")
       ELSE IF owned_val \notin OwnedAccepted THEN RecordError(r, row_num, "invalid_owned")
       ELSE EnrichValidateAdd(r, row_num,
                BookFromRow(row, IF grade_raw = <<>> THEN <<>> ELSE <<g.val>>, owned_val),
                ol, sr)

\* one iteration of `for row_num, row in enumerate(csv_reader, start=2)`
\* against the committed rows tbl
RowStep(r, tbl, row, ol, sr) ==
    LET row_num == r.row + 2
        r0 == [r EXCEPT !.row = @ + 1]
        title_normalized == normalize_text(Strip(OrEmpty(row.title)))
        author_normalized == normalize_text(Strip(OrEmpty(row.author)))
        queried == title_normalized # <<>> /\ author_normalized # <<>>
        r1 == IF queried THEN Flush(r0, tbl) ELSE r0
        all_books == tbl \o BooksOf(r1.flushed)
    IN IF ~r.has_cols THEN RecordError(r0, row_num, "missing_column")
       ELSE IF queried /\ r1.failed THEN RecordError(r1, row_num, "db_exception")
       ELSE IF queried /\ FindDuplicate(all_books, title_normalized, author_normalized) # {}
            THEN RecordError(r1, row_num, "duplicate")
       ELSE ParseRow(r1, row_num, row, ol, sr)

\* the outer `except Exception`: rollback, one top-level error (entered
\* with row 0: it carries no row number), return
FileError(r, kind) ==
    [RecordError(r, 0, kind) EXCEPT
        !.pending = <<>>, !.flushed = <<>>, !.failed = FALSE, !.pc = "done"]

\* after the loop: db.session.commit() unless debug
CommitStep(r, tbl) ==
    LET r1 == Flush(r, tbl)
    IN IF r.debug THEN [r EXCEPT !.pc = "done"]
       ELSE IF r.failed \/ r1.failed THEN FileError(r1, "file_commit")
       ELSE [r1 EXCEPT !.pc = "done", !.flushed = <<>>, !.persisted = RowsOf(r1.flushed)]

\* an INSERT waits while another open transaction holds a row it collides
\* with
Blocked(i, r) ==
    \E j \in Imports \ {i} : \E e \in SeqRange(imp[j].flushed) :
        \E p \in SeqRange(r.pending) : Conflict(p.book, e.book)

StartImport(i, debug, has_cols, n) ==
    /\ imp[i].pc = "idle"
    /\ imp' = [imp EXCEPT ![i] = [IdleImport EXCEPT !.pc = "rows", !.debug = debug,
                                     !.has_cols = has_cols, !.nrows = n]]
    /\ UNCHANGED <<books, fn>>

\* the row runs Book.query.all(), which flushes first
RowQueries(row) ==
    /\ normalize_text(Strip(OrEmpty(row.title))) # <<>>
    /\ normalize_text(Strip(OrEmpty(row.author))) # <<>>

ProcessRow(i, row, ol, sr) ==
    /\ imp[i].pc = "rows"
    /\ imp[i].row < imp[i].nrows
    /\ RowQueries(row) /\ imp[i].has_cols => ~Blocked(i, imp[i])
    /\ imp' = [imp EXCEPT ![i] = RowStep(imp[i], books, row, ol, sr)]
    /\ UNCHANGED <<books, fn>>

\* the csv reader raises while the next row is read
StreamError(i) ==
    /\ imp[i].pc = "rows"
    /\ imp[i].row < imp[i].nrows
    /\ imp' = [imp EXCEPT ![i] = FileError(imp[i], "file_stream")]
    /\ UNCHANGED <<books, fn>>

FinishImport(i) ==
    /\ imp[i].pc = "rows"
    /\ imp[i].row = imp[i].nrows
    /\ ~imp[i].debug => ~Blocked(i, imp[i])
    /\ LET r == CommitStep(imp[i], books)
       IN /\ imp' = [imp EXCEPT ![i] = r]
          /\ books' = IF r.persisted # <<>>
                      THEN books \o BooksOf(Flush(imp[i], books).flushed)
                      ELSE books
    /\ UNCHANGED fn

\* ------------------------------------------------------------------------
\* Admin handlers of bookapp/app.py that add or rename a Book.  Each runs in
\* its own request and session and commits or rolls back before it returns.
\* ------------------------------------------------------------------------
\* Book.query.filter_by(author=..., title=...).first() is not None
ExistsExact(tbl, title, author) ==
    \E k \in 1..Len(tbl) : tbl[k].title = title /\ tbl[k].author = author

\* the INSERT or UPDATE of a request waits on a colliding uncommitted row of
\* a running import
HeldByImport(b) ==
    \E j \in Imports : \E e \in SeqRange(imp[j].flushed) : Conflict(b, e.book)

\* db.session.add(book); db.session.commit(), rolled back on IntegrityError
InsertCommitted(tbl, b) ==
    IF b.title = NoText \/ InsertFails(tbl, <<b>>) THEN tbl ELSE Append(tbl, b)

create_book(title, author) ==
    LET book == [NewBook(title, author) EXCEPT
                    !.genre = "", !.topic = "", !.lexile_rating = "",
                    !.owned = "Not Owned", !.description = ""]
    IN /\ title # <<>> /\ Strip(title) # <<>>
       /\ Len(books) < MaxBooks
       /\ ~ExistsExact(books, title, author)
       /\ ~HeldByImport(book)
       /\ books' = InsertCommitted(books, book)
       /\ UNCHANGED <<imp, fn>>

add_book_from_openlibrary(title, author, openlibrary_id) ==
    LET book == [NewBook(title, author) EXCEPT
                    !.openlibrary_id = IF openlibrary_id = "" THEN NULL ELSE openlibrary_id]
    IN /\ Len(books) < MaxBooks
       /\ openlibrary_id # "" =>
            ~\E k \in 1..Len(books) : books[k].openlibrary_id = openlibrary_id
       /\ ~ExistsExact(books, title, author)
       /\ ~HeldByImport(book)
       /\ books' = InsertCommitted(books, book)
       /\ UNCHANGED <<imp, fn>>

\* review_book_suggestion with action 'add' for a BookSuggestion(title, author)
review_book_suggestion_add(title, author, sr) ==
    LET book == [NewBook(title, author) EXCEPT !.description = "Suggested by student"]
        en == enrich_book_from_openlibrary(book, sr)
    IN /\ Len(books) < MaxBooks
       /\ ~ExistsExact(books, title, author)
       /\ ~HeldByImport(en.book)
       /\ books' = InsertCommitted(books, en.book)
       /\ UNCHANGED <<imp, fn>>

\* the UPDATE of row k to b violates a constraint against another row
UpdateFails(tbl, k, b) ==
    \/ b.title = NoText
    \/ \E l \in 1..Len(tbl) : l # k /\ Conflict(b, tbl[l])

\* `form.x.data or None`
TextOrNone(s) == IF s = <<>> THEN NoText ELSE s

edit_book(k, title, author) ==
    LET b == [books[k] EXCEPT !.title = title, !.author = TextOrNone(author)]
    IN /\ k \in 1..Len(books)
       /\ title # <<>> /\ Strip(title) # <<>>
       /\ ~\E l \in 1..Len(books) :
              l # k /\ books[l].author = author /\ books[l].title = title
       /\ ~HeldByImport(b)
       /\ books' = IF UpdateFails(books, k, b) THEN books ELSE [books EXCEPT ![k] = b]
       /\ UNCHANGED <<imp, fn>>

\* review_book_edit_suggestion with action 'approve'; an empty suggested
\* column leaves the book's column alone
review_book_edit_suggestion_approve(k, suggested_title, suggested_author) ==
    LET b == [books[k] EXCEPT
                !.title = IF suggested_title # <<>> THEN suggested_title ELSE @,
                !.author = IF suggested_author # <<>> THEN suggested_author ELSE @]
    IN /\ k \in 1..Len(books)
       /\ ~HeldByImport(b)
       /\ books' = IF UpdateFails(books, k, b) THEN books ELSE [books EXCEPT ![k] = b]
       /\ UNCHANGED <<imp, fn>>

\* ------------------------------------------------------------------------
\* Genre, SubGenre, Topic and GenreMap tables, in primary-key order
\* ------------------------------------------------------------------------
Fantasy == <<"F", "a", "n", "t", "a", "s", "y">>

Crime == <<"C", "r", "i", "m", "e">>

History == <<"H", "i", "s", "t", "o", "r", "y">>

Epic == <<"E", "p", "i", "c">>

Urban == <<"U", "r", "b", "a", "n">>

Noir == <<"N", "o", "i", "r">>

Heist == <<"H", "e", "i", "s", "t">>

Magic == <<"M", "a", "g", "i", "c">>

GenreTable ==
    <<[book_type |-> "Fiction", name |-> Fantasy, sub_genres |-> <<Epic, Urban>>],
      [book_type |-> "Fiction", name |-> Crime, sub_genres |-> <<Noir>>],
      [book_type |-> "Non-Fiction", name |-> Crime, sub_genres |-> <<Heist>>],
      [book_type |-> "Non-Fiction", name |-> History, sub_genres |-> <<>>]>>

TopicTable == <<Magic>>

GenreMapTable == <<[alternative_name |-> <<"d", "r", "a", "g", "o", "n", "s">>, canonical_name |-> Fantasy]>>

\* ------------------------------------------------------------------------
\* bookapp/csv_cli.py: classification of a work from its subject tags
\* ------------------------------------------------------------------------
\* `sub in s` on strings
Contains(s, sub) ==
    \E i \in 0..(Len(s) - Len(sub)) : SubSeq(s, i + 1, i + Len(sub)) = sub

\* a dict[str, list[str]] is the sequence of its items in insertion order
DictKeys(d) == [k \in 1..Len(d) |-> d[k].name]

DictHas(d, key) == \E k \in 1..Len(d) : d[k].name = key

DictGet(d, key) == d[CHOOSE k \in 1..Len(d) : d[k].name = key].sub_genres

\* d1 | d2
DictMerge(d1, d2) ==
    LET kept(k) == IF DictHas(d2, d1[k].name)
                   THEN [name |-> d1[k].name, sub_genres |-> DictGet(d2, d1[k].name)]
                   ELSE d1[k]
        IsNew(e) == ~DictHas(d1, e.name)
    IN [k \in 1..Len(d1) |-> kept(k)] \o SelectSeq(d2, IsNew)

get_genres_from_db(book_type) ==
    LET OfType(g) == g.book_type = book_type
        genres == SelectSeq(GenreTable, OfType)
    IN [k \in 1..Len(genres) |-> [name |-> genres[k].name, sub_genres |-> genres[k].sub_genres]]

\* the module-level normalize_text of csv_cli.py
cli_normalize_text(text) ==
    IF text = NoText \/ text = <<>> THEN <<>>
    ELSE Strip(CollapseSpace(FilterWordSpace(Lower(text))))

\* any('non-fiction' in s or 'nonfiction' in s or 'non fiction' in s ...)
MentionsNonFiction(lower_subjects) ==
    \E k \in 1..Len(lower_subjects) :
        \/ Contains(lower_subjects[k], <<"n", "o", "n", "-", "f", "i", "c", "t", "i", "o", "n">>)
        \/ Contains(lower_subjects[k], <<"n", "o", "n", "f", "i", "c", "t", "i", "o", "n">>)
        \/ Contains(lower_subjects[k], <<"n", "o", "n", " ", "f", "i", "c", "t", "i", "o", "n">>)

LowerAll(names) == [k \in 1..Len(names) |-> Lower(names[k])]

get_best_bet_genres_from_subjects(subjects) ==
    LET lower_subjects == LowerAll(subjects)
        book_type == IF MentionsNonFiction(lower_subjects) THEN "Non-Fiction"
                     ELSE IF <<"f", "i", "c", "t", "i", "o", "n">> \in SeqRange(lower_subjects) THEN "Fiction"
                     ELSE NULL
        known_genres == IF book_type # NULL THEN get_genres_from_db(book_type)
                        ELSE DictMerge(get_genres_from_db("Fiction"),
                                       get_genres_from_db("Non-Fiction"))
        keys == DictKeys(known_genres)
        lower_known_genres == LowerAll(keys)
        norm_map(g) == keys[CHOOSE k \in 1..Len(keys) :
                              /\ lower_known_genres[k] = g
                              /\ \A l \in (k + 1)..Len(keys) : lower_known_genres[l] # g]
        IsKnown(g) == g \in SeqRange(lower_known_genres)
        matched == SelectSeq(lower_subjects, IsKnown)
        possible_genres == [k \in 1..Len(matched) |-> norm_map(matched[k])]
        genre == IF possible_genres # <<>> THEN possible_genres[1] ELSE NoText
        known_sub_genres == IF genre # NoText THEN DictGet(known_genres, genre) ELSE <<>>
        InSubjects(sg) == Lower(sg) \in SeqRange(lower_subjects)
        possible_sub_genres == SelectSeq(known_sub_genres, InSubjects)
        sub_genre == IF possible_sub_genres # <<>> THEN possible_sub_genres[1] ELSE NoText
        first_row == GenreTable[CHOOSE k \in 1..Len(GenreTable) :
                                  /\ GenreTable[k].name = genre
                                  /\ \A l \in 1..(k - 1) : GenreTable[l].name # genre]
    IN [book_type |-> IF book_type = NULL /\ genre # NoText
                      THEN first_row.book_type ELSE book_type,
        genre |-> genre, sub_genre |-> sub_genre]

\* ------------------------------------------------------------------------
\* bookapp/csv_cli.py: WorkWrapper.  What the operator answers at a prompt
\* is an input, so each method is the set of values it can return.
\* ------------------------------------------------------------------------
get_book_type(work) ==
    LET subjects == work.subject
        out == IF MentionsNonFiction(LowerAll(subjects)) THEN "Non-Fiction"
               ELSE IF \E k \in 1..Len(subjects) : Lower(subjects[k]) = <<"f", "i", "c", "t", "i", "o", "n">>
                    THEN "Fiction"
               ELSE NULL
    IN IF out = NULL /\ work.ask THEN {"Fiction", "Non-Fiction", NULL} ELSE {out}

\* genre_maps.get(s, s)
GenreMapGet(s) ==
    IF \E k \in 1..Len(GenreMapTable) : GenreMapTable[k].alternative_name = s
    THEN GenreMapTable[CHOOSE k \in 1..Len(GenreMapTable) :
                          GenreMapTable[k].alternative_name = s].canonical_name
    ELSE s

get_genre(work, book_type, top_genre) ==
    LET known == get_genres_from_db(book_type)
        known_names == IF top_genre # NoText THEN DictGet(known, top_genre)
                       ELSE DictKeys(known)
        subjects == work.subject
        lower_genres == [k \in 1..Len(known_names) |-> cli_normalize_text(known_names[k])]
        lower_subjects ==
            {cli_normalize_text(GenreMapGet(cli_normalize_text(subjects[k]))) :
                k \in 1..Len(subjects)}
        Matches(g) == cli_normalize_text(g) \in lower_subjects
        possible_genres == SelectSeq(known_names, Matches)
    IN IF Len(possible_genres) = 1 THEN {possible_genres[1]}
       ELSE IF possible_genres # <<>> /\ work.ask
            THEN SeqRange(possible_genres) \cup SeqRange(known_names) \cup {NoText}
            ELSE {NoText}

\* add_topic_to_db
add_topic_to_db(topics, topic_name) ==
    IF topic_name \in SeqRange(topics) THEN topics ELSE Append(topics, topic_name)

\* the topic returned and the Topic table afterwards
get_topic(work, topics) ==
    LET subjects == work.subjects
        lower_known_topics == SeqRange(LowerAll(topics))
        IsTopic(subj) == Lower(subj) \in lower_known_topics
        NotTopic(subj) == Lower(subj) \notin lower_known_topics
        possible_topics == SelectSeq(subjects, IsTopic) \o SelectSeq(subjects, NotTopic)
    IN IF possible_topics # <<>> /\ work.ask
       THEN {[topic |-> t, topics |-> add_topic_to_db(topics, t)] :
                t \in SeqRange(possible_topics)}
       ELSE {[topic |-> NoText, topics |-> topics]}

\* ------------------------------------------------------------------------
\* bookapp/csv_cli.py: CSVBookRecord
\* ------------------------------------------------------------------------
\* CSVBookRecord.grade: the converter int(x) for x not in (None, ''), then
\* the validator check_grade; ok is FALSE where either raises ValueError
check_grade(raw) ==
    LET g == PyInt(Strip(raw))
    IN IF raw = <<>> THEN [ok |-> TRUE, val |-> <<>>]
       ELSE IF ~g.ok \/ g.val < 1 \/ g.val > 12 THEN [ok |-> FALSE, val |-> <<>>]
       ELSE [ok |-> TRUE, val |-> <<g.val>>]

CSVBookRecord(title, author) ==
    [title |-> title, author |-> author, openlibrary_id |-> NULL,
     publication_year |-> <<>>, cover_url |-> NULL, book_type |-> NULL,
     sub_genre |-> NoText, genre |-> NoText, topic |-> NoText,
     lexile_rating |-> NULL, grade |-> <<>>, owned |-> "Not Owned",
     description |-> NULL]

\* `a or b` on str | None
OrStr(a, b) == IF Falsy(a) THEN b ELSE a

\* `a or b` on int | None
OrInt(a, b) == IF a = <<>> \/ a = <<0>> THEN b ELSE a

\* `a or b` on a taxonomy name
OrName(a, b) == IF a = <<>> \/ a = NoText THEN b ELSE a

DigitStr(d) ==
    CASE d = 0 -> "0" [] d = 1 -> "1" [] d = 2 -> "2" [] d = 3 -> "3" [] d = 4 -> "4"
      [] d = 5 -> "5" [] d = 6 -> "6" [] d = 7 -> "7" [] d = 8 -> "8" [] d = 9 -> "9"

RECURSIVE IntStr(_)
\* str(n), n >= 0
IntStr(n) == IF n < 10 THEN DigitStr(n) ELSE IntStr(n \div 10) \o DigitStr(n % 10)

\* f"https://covers.openlibrary.org/b/id/{work.work.cover_i}-L.jpg"
CoverUrl(cover_i) ==
    "https://covers.openlibrary.org/b/id/"
        \o (IF cover_i = <<>> THEN "None" ELSE IntStr(cover_i[1])) \o "-L.jpg"

\* OpenLibraryWork.olid
olid(work) == work.key

\* the classification computed for the work: by best bet when quick and not
\* asking, else by the WorkWrapper methods
Classify(work, quick) ==
    IF quick /\ ~work.ask
    THEN {get_best_bet_genres_from_subjects(work.subject)}
    ELSE UNION {IF bt = NULL
                THEN {[book_type |-> bt, genre |-> NoText, sub_genre |-> NoText]}
                ELSE UNION {{[book_type |-> bt, genre |-> g, sub_genre |-> sg] :
                                sg \in IF g # NoText /\ g # <<>>
                                       THEN get_genre(work, bt, g) ELSE {NoText}} :
                            g \in get_genre(work, bt, NoText)} :
                bt \in get_book_type(work)}

\* the records update_from_openlibrary_work can return, each with the Topic
\* table it leaves; confirm is the operator's answer to the final prompt
update_from_openlibrary_work(self, work, quick, confirm, topics) ==
    {[applied |-> quick \/ confirm,
      topics |-> tp.topics,
      record |-> IF ~quick /\ ~confirm THEN self
                 ELSE [self EXCEPT
                         !.openlibrary_id = OrStr(olid(work), @),
                         !.description = OrStr(work.description, @),
                         !.cover_url = OrStr(CoverUrl(work.cover_i), @),
                         !.publication_year = OrInt(work.first_publish_year, @),
                         !.book_type = OrStr(cl.book_type, @),
                         !.genre = OrName(cl.genre, @),
                         !.sub_genre = OrName(cl.sub_genre, @),
                         !.topic = OrName(tp.topic, @)]] :
        cl \in Classify(work, quick), tp \in get_topic(work, topics)}

\* ------------------------------------------------------------------------
\* The catalog and its imports
\* ------------------------------------------------------------------------
FnOff == [pc |-> "off"]

Init ==
    /\ books = <<>>
    /\ imp = [i \in Imports |-> IdleImport]
    /\ fn = FnOff

AdminTitles == {T1, T2}

AdminAuthors == {<<"x">>, <<>>}

\* one import call running next to the admin creating books
Next ==
    \/ \E debug \in BOOLEAN, has_cols \in BOOLEAN, n \in 0..MaxRows :
          StartImport(1, debug, has_cols, n)
    \/ \E row \in RowInputs, ol \in IsbnResults, sr \in SearchResults :
          ProcessRow(1, row, ol, sr)
    \/ StreamError(1)
    \/ FinishImport(1)
    \/ \E a \in AdminAuthors : create_book(T1, a)

Spec == Init /\ [][Next]_vars

\* two import calls, one after the other or overlapping
NextRace ==
    \/ \E i \in Imports, n \in 1..MaxRows : StartImport(i, FALSE, TRUE, n)
    \/ \E i \in Imports, row \in RaceRows : ProcessRow(i, row, NoIsbnData, "none")
    \/ \E i \in Imports : StreamError(i)
    \/ \E i \in Imports : FinishImport(i)

SpecRace == Init /\ [][NextRace]_vars

\* the admin handlers alone
NextAdmin ==
    \/ \E t \in AdminTitles \cup {T3}, a \in AdminAuthors : create_book(t, a)
    \/ \E t \in AdminTitles, a \in AdminAuthors, o \in {"", "/books/OL1M"} :
          add_book_from_openlibrary(t, a, o)
    \/ \E t \in AdminTitles, a \in AdminAuthors \ {<<>>}, sr \in SearchResults :
          review_book_suggestion_add(t, a, sr)
    \/ \E k \in 1..MaxBooks, t \in AdminTitles, a \in AdminAuthors : edit_book(k, t, a)
    \/ \E k \in 1..MaxBooks, t \in AdminTitles \cup {<<>>}, a \in AdminAuthors :
          review_book_edit_suggestion_approve(k, t, a)

SpecAdmin == Init /\ [][NextAdmin]_vars

\* ------------------------------------------------------------------------
\* Enrichment of one Book, as import_from_csv dispatches it
\* ------------------------------------------------------------------------
\* CSV rows with every combination of the columns enrichment may fill
EnrichRows ==
    {[CsvRow(t, a, i, g, <<>>, "") EXCEPT !.book_type = bt, !.sub_genre = sg] :
        t \in {T1, <<>>}, a \in {<<"x">>, <<>>}, i \in {"", "i1"},
        g \in {"", "Fantasy"}, bt \in {"", "Fiction"}, sg \in {"", "Epic"}}

\* the Book import_from_csv has built when it reaches the enrichment
EnrichBooks == {BookFromRow(row, <<>>, "Not Owned") : row \in EnrichRows}

InitEnrich ==
    /\ books = <<>>
    /\ imp = [i \in Imports |-> IdleImport]
    /\ fn \in {[pc |-> "enrich_call", book |-> b, ol |-> ol, sr |-> sr,
                out |-> b, raised |-> FALSE] :
                  b \in EnrichBooks, ol \in IsbnResults, sr \in SearchResults}

\* `if isbn:` ... get_book_by_isbn and the `if ol_data:` block
EnrichByIsbn ==
    /\ fn.pc = "enrich_call"
    /\ ~Falsy(fn.book.isbn)
    /\ fn' = [fn EXCEPT !.pc = "enrich_ret", !.out = IsbnEnrich(fn.book, fn.ol)]
    /\ UNCHANGED <<books, imp>>

\* `else:` enrich_book_from_openlibrary(book)
EnrichBySearch ==
    /\ fn.pc = "enrich_call"
    /\ Falsy(fn.book.isbn)
    /\ LET en == enrich_book_from_openlibrary(fn.book, fn.sr)
       IN fn' = [fn EXCEPT !.pc = "enrich_ret", !.out = en.book, !.raised = en.raised]
    /\ UNCHANGED <<books, imp>>

NextEnrich == EnrichByIsbn \/ EnrichBySearch

SpecEnrich == InitEnrich /\ [][NextEnrich]_vars

\* ------------------------------------------------------------------------
\* The merge of one CSV record with one OpenLibrary work
\* ------------------------------------------------------------------------
\* work.subject of the works merged (None reads as the empty list)
SubjectInputs ==
    {<<>>,
     <<<<"F", "i", "c", "t", "i", "o", "n">>,
      <<"f", "a", "n", "t", "a", "s", "y">>,
      <<"U", "R", "B", "A", "N">>,
      <<"E", "p", "i", "c">>>>,
     <<<<"N", "o", "n", "f", "i", "c", "t", "i", "o", "n", " ", "b", "o", "o", "k", "s">>,
      <<"H", "i", "s", "t", "o", "r", "y">>>>,
     <<<<"C", "r", "i", "m", "e">>>>,
     <<<<"F", "i", "c", "t", "i", "o", "n">>,
      <<"D", "r", "a", "g", "o", "n", "s", "!">>>>,
     <<<<"f", "i", "c", "t", "i", "o", "n">>,
      <<"F", "a", "n", "t", "a", "s", "y">>,
      <<"C", "r", "i", "m", "e">>>>}

\* work.subjects of the works merged
SubjectsInputs == {<<>>, <<<<"m", "a", "g", "i", "c">>,
      <<"W", "i", "z", "a", "r", "d", "s">>>>}

WorkInputs ==
    {[key |-> m.key, description |-> m.description, cover_i |-> m.cover_i,
      first_publish_year |-> m.first_publish_year,
      subject |-> sj, subjects |-> sjs, ask |-> ask] :
        m \in {[key |-> "/works/OL1W", description |-> "olDesc", cover_i |-> <<12>>,
                first_publish_year |-> <<2008>>],
               [key |-> "/works/OL2W", description |-> NULL, cover_i |-> <<>>,
                first_publish_year |-> <<>>]},
        sj \in SubjectInputs, sjs \in SubjectsInputs, ask \in BOOLEAN}

RecBare == CSVBookRecord(T1, <<"x">>)

RecMeta ==
    [RecBare EXCEPT !.openlibrary_id = "OL9W", !.description = "my notes",
                    !.cover_url = "http://local/cover.jpg",
                    !.publication_year = <<1999>>]

RecClass ==
    [RecBare EXCEPT !.book_type = "Non-Fiction", !.genre = History,
                    !.sub_genre = Heist, !.topic = Magic]

RecFull ==
    [RecMeta EXCEPT !.book_type = "Non-Fiction", !.genre = History,
                    !.sub_genre = Heist, !.topic = Magic]

RecordInputs == {RecBare, RecMeta, RecClass, RecFull}

InitMerge ==
    /\ books = <<>>
    /\ imp = [i \in Imports |-> IdleImport]
    /\ fn \in {[pc |-> "merge_call", self |-> rec, work |-> w, quick |-> q,
                topics |-> TopicTable, out |-> rec, applied |-> FALSE] :
                  rec \in RecordInputs, w \in WorkInputs, q \in BOOLEAN}

\* record.update_from_openlibrary_work(work, quick=quick)
MergeRecord ==
    /\ fn.pc = "merge_call"
    /\ \E confirm \in BOOLEAN :
         \E res \in update_from_openlibrary_work(fn.self, fn.work, fn.quick, confirm, fn.topics) :
            fn' = [fn EXCEPT !.pc = "merge_ret", !.out = res.record,
                             !.topics = res.topics, !.applied = res.applied]
    /\ UNCHANGED <<books, imp>>

NextMerge == MergeRecord

SpecMerge == InitMerge /\ [][NextMerge]_vars

\* ------------------------------------------------------------------------
\* One import with the log of what it read.  fn.rows lists, for the
\* properties only, each row read with the outcome of its lookup;
\* fn.catalog is the catalog the import started on, fn.calls counts the
\* OpenLibraryService calls made, fn.skip is upload_books' skip_enrichment.
\* ------------------------------------------------------------------------
LoggedRows ==
    RowInputs \cup {CsvRow(T1, <<"x">>, "", "", <<"0">>, ""),
                    CsvRow(T1, <<"x">>, "", "", <<>>, "Borrowed")}

\* the lookups a row can meet: get_book_by_isbn when it has an ISBN, else
\* the search of enrich_book_from_openlibrary
LookupsOf(row) ==
    IF row.isbn # NULL /\ row.isbn # ""
    THEN {[ol |-> ol, sr |-> "none"] : ol \in IsbnResults}
    ELSE {[ol |-> NoIsbnData, sr |-> sr] : sr \in SearchResults}

\* the row gets as far as the enrichment (it is not rejected before it)
ReachesEnrichment(r, tbl, row) ==
    LET r2 == RowStep(r, tbl, row, NoIsbnData, "none")
    IN \/ r2.success_count > r.success_count
       \/ r2.errors[Len(r2.errors)].kind = "title_required"

\* import_from_csv(..., skip_enrichment=True): the row is processed without
\* any call to OpenLibraryService
import_row_skip_enrichment(r, tbl, row) == RowStep(r, tbl, row, NoIsbnData, "none")

CatalogInputs == {<<>>, <<NewBook(<<"b">>, <<"x">>)>>}

InitRows ==
    /\ books \in CatalogInputs
    /\ imp = [i \in Imports |-> IdleImport]
    /\ fn \in {[pc |-> "log", catalog |-> books, skip |-> sk, rows |-> <<>>, calls |-> 0] :
                 sk \in BOOLEAN}

ReadRow(row, lk) ==
    /\ imp[1].pc = "rows"
    /\ imp[1].row < imp[1].nrows
    /\ ~fn.skip
    /\ imp' = [imp EXCEPT ![1] = RowStep(imp[1], books, row, lk.ol, lk.sr)]
    /\ fn' = [fn EXCEPT
                !.rows = Append(@, [row |-> row, ol |-> lk.ol, sr |-> lk.sr]),
                !.calls = IF ReachesEnrichment(imp[1], books, row) THEN @ + 1 ELSE @]
    /\ UNCHANGED books

ReadRowSkipEnrichment(row) ==
    /\ imp[1].pc = "rows"
    /\ imp[1].row < imp[1].nrows
    /\ fn.skip
    /\ imp' = [imp EXCEPT ![1] = import_row_skip_enrichment(imp[1], books, row)]
    /\ fn' = [fn EXCEPT !.rows = Append(@, [row |-> row, ol |-> NoIsbnData, sr |-> "none"])]
    /\ UNCHANGED books

NextRows ==
    \/ \E debug \in BOOLEAN, has_cols \in BOOLEAN, n \in 1..MaxRows :
          /\ ~(debug /\ ~has_cols)
          /\ fn.skip => ~debug /\ has_cols
          /\ StartImport(1, debug, has_cols, n)
    \/ \E row \in LoggedRows : \E lk \in LookupsOf(row) : ReadRow(row, lk)
    \/ \E row \in LoggedRows : ReadRowSkipEnrichment(row)
    \/ StreamError(1)
    \/ FinishImport(1)

SpecRows == InitRows /\ [][NextRows]_vars

\* ------------------------------------------------------------------------
\* Properties of the import
\* ------------------------------------------------------------------------
\* how often row n was tallied, as a success or as an error
RowTally(r, n) ==
    Cardinality({k \in 1..Len(r.ok_rows) : r.ok_rows[k].row = n})
    + Cardinality({k \in 1..Len(r.errors) : r.errors[k].row = n})

FileErrors(r) == {k \in 1..Len(r.errors) : r.errors[k].row = 0}

StreamFailed(r) == \E k \in 1..Len(r.errors) : r.errors[k].kind = "file_stream"

SameKey(b1, b2) ==
    /\ normalize_text(b1.title) = normalize_text(b2.title)
    /\ normalize_text(b1.author) = normalize_text(b2.author)

\* C1 as claimed: once import_from_csv has returned, every data row of the
\* batch is tallied exactly once, len(errors) = error_count, and the errors
\* are in row order, each carrying its row number (2 or more).
C1_AsClaimed ==
    \A i \in Imports :
        LET r == imp[i]
        IN r.pc = "done" =>
            /\ \A n \in 2..(r.nrows + 1) : RowTally(r, n) = 1
            /\ r.success_count + r.error_count = r.nrows
            /\ Len(r.errors) = r.error_count
            /\ \A k \in 1..Len(r.errors) : r.errors[k].row >= 2
            /\ \A k, l \in 1..Len(r.errors) : k < l => r.errors[k].row < r.errors[l].row

\* C1 amended: every data row read so far is tallied exactly once (success
\* or error, never both), rows not read are not tallied, len(errors) =
\* error_count, the per-row errors are in row order and carry their row
\* number (2 or more), and a failure of the stream or of the final commit
\* adds one last entry without a row number, counted in error_count.
C1_Tally ==
    \A i \in Imports :
        LET r == imp[i]
        IN /\ \A n \in 2..(r.row + 1) : RowTally(r, n) = 1
           /\ \A n \in (r.row + 2)..(MaxRows + 1) : RowTally(r, n) = 0
           /\ r.success_count = Len(r.ok_rows)
           /\ Len(r.errors) = r.error_count
           /\ r.success_count + r.error_count = r.row + Cardinality(FileErrors(r))
           /\ \A k \in 1..Len(r.errors) : r.errors[k].row = 0 \/ r.errors[k].row >= 2
           /\ \A k, l \in 1..Len(r.errors) :
                 k < l /\ r.errors[l].row # 0 => r.errors[k].row < r.errors[l].row
           /\ \A k \in FileErrors(r) : k = Len(r.errors) /\ r.pc = "done"

\* a returned import with a success, a per-row error and the top-level error
C1_Witness ==
    /\ imp[1].pc = "done"
    /\ imp[1].success_count >= 1
    /\ \E k \in 1..Len(imp[1].errors) : imp[1].errors[k].row >= 2
    /\ FileErrors(imp[1]) # {}

\* C2 as claimed: no two Book records of the catalog have the same
\* normalized (title, author).
C2_AsClaimed ==
    \A k, l \in 1..Len(books) : k < l => ~SameKey(books[k], books[l])

\* the row being processed, as the key the duplicate check compares
RowKey(row) == [title |-> Strip(OrEmpty(row.title)), author |-> Strip(OrEmpty(row.author))]

LastErrorIs(r, row_num, kind) ==
    /\ r.errors # <<>>
    /\ r.errors[Len(r.errors)] = [row |-> row_num, kind |-> kind]

\* C3 as claimed: a row whose normalized (title, author), both parts non-empty,
\* equals that of a row accepted earlier in the same batch, and is not in
\* the catalog, is recorded as an 'already exists' error, with debug set or
\* not.
C3_AsClaimed ==
    [][\A row \in RowInputs, ol \in IsbnResults, sr \in SearchResults :
          ( /\ ProcessRow(1, row, ol, sr)
            /\ imp[1].has_cols
            /\ RowQueries(row)
            /\ \E e \in SeqRange(imp[1].ok_rows) : SameKey(e.book, RowKey(row))
            /\ ~\E b \in SeqRange(books) : SameKey(b, RowKey(row)) )
          => LastErrorIs(imp'[1], imp[1].row + 2, "duplicate")]_vars

\* C4 as claimed: a row whose title and author differ from a catalog Book's
\* only in case, punctuation or whitespace is recorded as an 'already
\* exists' error and no record is added for it.
C4_AsClaimed ==
    [][\A row \in RowInputs, ol \in IsbnResults, sr \in SearchResults :
          ( /\ ProcessRow(1, row, ol, sr)
            /\ imp[1].has_cols
            /\ ~imp[1].failed
            /\ \E b \in SeqRange(books) : SameKey(b, RowKey(row)) )
          => /\ LastErrorIs(imp'[1], imp[1].row + 2, "duplicate")
             /\ imp'[1].success_count = imp[1].success_count]_vars

\* the rows counted as successes that were not committed
Lost(r) == {e \in SeqRange(r.ok_rows) : e.row \notin SeqRange(r.persisted)}

\* C5 as claimed: when the stream did not fail, a non-debug import commits
\* every row it counted as a success, except a row whose own INSERT
\* collides with a committed Book.
C5_AsClaimed ==
    LET r == imp[1]
    IN r.pc = "done" /\ ~r.debug /\ ~StreamFailed(r) =>
          \A e \in Lost(r) : \E b \in SeqRange(books) : Conflict(e.book, b)

\* C6 as claimed: of two rows with the same normalized (title, author) that
\* two imports both accepted, at most one is persisted, and each import
\* still commits its accepted rows that have no such counterpart.
C6_AsClaimed ==
    imp[1].pc = "done" /\ imp[2].pc = "done"
        /\ ~StreamFailed(imp[1]) /\ ~StreamFailed(imp[2]) =>
       /\ \A e1 \in SeqRange(imp[1].ok_rows), e2 \in SeqRange(imp[2].ok_rows) :
             SameKey(e1.book, e2.book) => e1 \in Lost(imp[1]) \/ e2 \in Lost(imp[2])
       /\ \A e1 \in Lost(imp[1]) : \E e2 \in SeqRange(imp[2].ok_rows) : SameKey(e1.book, e2.book)
       /\ \A e2 \in Lost(imp[2]) : \E e1 \in SeqRange(imp[1].ok_rows) : SameKey(e1.book, e2.book)

\* C7 as claimed: when a non-debug import returns (the stream not having
\* failed), the rows it committed are exactly the rows it counted in
\* success_count.
C7_AsClaimed ==
    LET r == imp[1]
    IN r.pc = "done" /\ ~r.debug /\ ~StreamFailed(r) =>
          /\ Lost(r) = {}
          /\ r.success_count = Len(r.persisted)

\* ------------------------------------------------------------------------
\* Properties of the enrichment
\* ------------------------------------------------------------------------
StringColumns ==
    {"isbn", "openlibrary_id", "book_type", "genre", "sub_genre", "topic",
     "lexile_rating", "owned", "description", "cover_url", "publication_year"}

\* C8: enrichment of a Book during import (the ISBN branch and
\* enrich_book_from_openlibrary) leaves every column that was non-empty
\* before the call at the value it had.
C8_FillOnly ==
    fn.pc = "enrich_ret" =>
        /\ \A c \in StringColumns : ~Falsy(fn.book[c]) => fn.out[c] = fn.book[c]
        /\ \A c \in {"title", "author"} :
              fn.book[c] # <<>> /\ fn.book[c] # NoText => fn.out[c] = fn.book[c]
        /\ fn.book.grade # <<>> => fn.out.grade = fn.book.grade

\* the ISBN lookup returned a title, an author and a genre for a row that
\* has its own title and genre and no author: the author and the
\* description are filled, the title and the genre are kept
C8_Witness ==
    /\ fn.pc = "enrich_ret"
    /\ ~Falsy(fn.book.isbn)
    /\ fn.ol.found /\ ~Falsy(fn.ol.genre) /\ fn.ol.title # <<>>
    /\ fn.book.genre = "Fantasy" /\ fn.book.title = T1 /\ fn.book.author = <<>>
    /\ fn.out.genre = "Fantasy" /\ fn.out.title = T1
    /\ fn.out.author = fn.ol.author /\ fn.out.author # <<>>
    /\ fn.out.description = fn.ol.description /\ fn.book.description = NULL

\* ------------------------------------------------------------------------
\* Properties of the merge
\* ------------------------------------------------------------------------
\* C9 as claimed: each of openlibrary_id, description, cover_url,
\* publication_year, book_type, genre, sub_genre and topic that was not None
\* in the record before update_from_openlibrary_work has the same value in
\* the record returned.
C9_AsClaimed ==
    fn.pc = "merge_ret" =>
        /\ \A c \in {"openlibrary_id", "description", "cover_url", "book_type"} :
              fn.self[c] # NULL => fn.out[c] = fn.self[c]
        /\ fn.self.publication_year # <<>> =>
              fn.out.publication_year = fn.self.publication_year
        /\ \A c \in {"genre", "sub_genre", "topic"} :
              fn.self[c] # NoText => fn.out[c] = fn.self[c]

\* C10 as claimed: in a merge that was applied, openlibrary_id, description,
\* publication_year and cover_url that were None in the record take the
\* work's value when the work has one and stay None when it has none; a
\* work without a cover identifier has no cover URL.
C10_AsClaimed ==
    fn.pc = "merge_ret" /\ fn.applied =>
        /\ fn.self.openlibrary_id = NULL => fn.out.openlibrary_id = olid(fn.work)
        /\ fn.self.description = NULL =>
              fn.out.description =
                  IF Falsy(fn.work.description) THEN NULL ELSE fn.work.description
        /\ fn.self.publication_year = <<>> =>
              fn.out.publication_year =
                  IF fn.work.first_publish_year = <<0>> THEN <<>>
                  ELSE fn.work.first_publish_year
        /\ fn.self.cover_url = NULL =>
              fn.out.cover_url =
                  IF fn.work.cover_i = <<>> THEN NULL ELSE CoverUrl(fn.work.cover_i)

\* ------------------------------------------------------------------------
\* Properties of the row validation
\* ------------------------------------------------------------------------
\* the text is a decimal integer from 1 to 12
GradeInRange(s) ==
    LET body == IF s # <<>> /\ Head(s) = "+" THEN Tail(s) ELSE s
    IN /\ body # <<>>
       /\ \A k \in 1..Len(body) : body[k] \in Digits
       /\ DecVal(body) \in 1..12

\* the grade column is filled in and is not an integer from 1 to 12
BadGrade(row) == Strip(row.grade) # <<>> /\ ~GradeInRange(Strip(row.grade))

\* row number n has exactly one entry in errors, is not among the
\* successes, has no record in the session and none committed
RowIsOneError(r, n) ==
    /\ Cardinality({k \in 1..Len(r.errors) : r.errors[k].row = n}) = 1
    /\ n \notin SeqRange(RowsOf(r.ok_rows))
    /\ n \notin SeqRange(RowsOf(r.pending)) \cup SeqRange(RowsOf(r.flushed))
    /\ n \notin SeqRange(r.persisted)

\* the import ends before its last row only when the stream fails
EndsOnlyAtEnd(r) == r.pc = "done" /\ ~StreamFailed(r) => r.row = r.nrows

\* C11: a row whose grade is non-empty and not an integer in [1,12] yields
\* exactly one error entry for that row and no record (in the session or
\* committed), and does not end the import; CSVBookRecord refuses the
\* same grade.
C11_BadGradeIsOneError ==
    /\ \A k \in 1..Len(fn.rows) :
          BadGrade(fn.rows[k].row) =>
              /\ RowIsOneError(imp[1], k + 1)
              /\ ~check_grade(fn.rows[k].row.grade).ok
    /\ EndsOnlyAtEnd(imp[1])
    /\ Len(books) = Len(fn.catalog) + Len(imp[1].persisted)

\* a finished import whose first row had grade 13 and whose second row was
\* accepted and committed
C11_Witness ==
    /\ imp[1].pc = "done"
    /\ Len(fn.rows) = 2
    /\ Strip(fn.rows[1].row.grade) = <<"1", "3">>
    /\ imp[1].errors = <<[row |-> 2, kind |-> "invalid_grade"]>>
    /\ imp[1].persisted = <<3>>
    /\ Len(books) = Len(fn.catalog) + 1

\* the ownership values of the specification
OwnedSpec == {"Physical", "Kindle", "Not Owned", "Audible"}

\* the entries of errors for row number n
ErrorsOfRow(r, n) == {r.errors[k] : k \in {l \in 1..Len(r.errors) : r.errors[l].row = n}}

\* C12 as claimed: a row is refused for its owned value exactly when the
\* value is none of Physical, Kindle, Not Owned, Audible or blank; a blank
\* value is stored as Not Owned, and a refused row is one error and no
\* record.
C12_AsClaimed ==
    ~fn.skip => \A k \in 1..Len(fn.rows) :
        LET owned == fn.rows[k].row.owned
        IN /\ owned \in OwnedSpec \cup {""} =>
                 \A e \in ErrorsOfRow(imp[1], k + 1) : e.kind # "invalid_owned"
           /\ owned \notin OwnedSpec \cup {""} => RowIsOneError(imp[1], k + 1)
           /\ \A e \in SeqRange(imp[1].ok_rows) :
                 e.row = k + 1 =>
                    e.book.owned = IF owned = "" THEN "Not Owned" ELSE owned

\* the title or the author of the row is missing or empty
NoTitleOrAuthor(row) ==
    \/ Strip(OrEmpty(row.title)) = <<>>
    \/ Strip(OrEmpty(row.author)) = <<>>

\* the logged row has an ISBN and its lookup returned a book
LookupFound(e) == e.row.isbn # NULL /\ e.row.isbn # "" /\ e.ol.found

\* the title or the author is missing or empty in the row and the row's
\* ISBN lookup did not supply it
NoTitleOrAuthorAfterLookup(e) ==
    \/ Strip(OrEmpty(e.row.title)) = <<>> /\ ~(LookupFound(e) /\ e.ol.title # <<>>)
    \/ Strip(OrEmpty(e.row.author)) = <<>> /\ ~(LookupFound(e) /\ e.ol.author # <<>>)

\* C13 as claimed: a row whose title is missing or empty, or whose author
\* is missing or empty (and not supplied by the row's ISBN lookup), is one
\* error and no record, and does not end the import.
C13_AsClaimed ==
    ~fn.skip =>
        /\ \A k \in 1..Len(fn.rows) :
              ~imp[1].has_cols \/ NoTitleOrAuthorAfterLookup(fn.rows[k])
                  => RowIsOneError(imp[1], k + 1)
        /\ EndsOnlyAtEnd(imp[1])

\* C14 as claimed: no entry of errors comes from the lookup: whatever
\* get_book_by_isbn or the search returned for a row, the row's errors are
\* those of parsing, the duplicate check and the title validation.
C14_AsClaimed ==
    \A k \in 1..Len(imp[1].errors) : imp[1].errors[k].kind # "enrich_exception"

\* the row is well-formed by the specification: title and author filled
\* in, the optional columns present, grade blank or in [1,12], owned blank
\* or one of the four values
StructurallyValid(row) ==
    /\ ~NoTitleOrAuthor(row)
    /\ row.isbn # NULL
    /\ ~BadGrade(row)
    /\ row.owned \in OwnedSpec \cup {""}

\* row k of the log has the normalized key of no catalog book and of no
\* other row of the batch
NonDuplicate(k) ==
    /\ \A b \in SeqRange(fn.catalog) : ~SameKey(b, RowKey(fn.rows[k].row))
    /\ \A j \in 1..Len(fn.rows) :
          j # k => ~SameKey(RowKey(fn.rows[j].row), RowKey(fn.rows[k].row))

\* C15 as claimed: an import with skip_enrichment makes no call to
\* OpenLibraryService, and when it has returned (the stream intact) every
\* structurally valid, non-duplicate row of the batch is committed.
C15_AsClaimed ==
    fn.skip =>
        /\ fn.calls = 0
        /\ imp[1].pc = "done" /\ ~StreamFailed(imp[1]) =>
              \A k \in 1..Len(fn.rows) :
                  StructurallyValid(fn.rows[k].row) /\ NonDuplicate(k) =>
                      k + 1 \in SeqRange(imp[1].persisted)

\* C16: with debug set the import leaves the catalog as it found it: no
\* record is added to the session, flushed or committed, whatever rows it
\* reads.
C16_DebugLeavesCatalog ==
    imp[1].debug =>
        /\ books = fn.catalog
        /\ imp[1].pending = <<>> /\ imp[1].flushed = <<>>
        /\ imp[1].persisted = <<>>

\* a finished debug import that counted a row as a success and reported
\* another as an error
C16_Witness ==
    /\ imp[1].debug /\ imp[1].pc = "done"
    /\ imp[1].success_count >= 1 /\ imp[1].error_count >= 1
    /\ books = fn.catalog

\* ------------------------------------------------------------------------
\* OpenLibraryService (openlibrary_service.py)
\* ------------------------------------------------------------------------
MaxDocs == 2

\* what requests.get, raise_for_status and response.json can raise
HttpFailures == {"ConnectionError", "Timeout", "HTTPError", "JSONDecodeError"}

\* attrs.fields(OpenLibraryWork)
WorkFields ==
    {"key", "title", "subjects", "description", "subtitle", "alternative_title",
     "alternative_subtitle", "cover_i", "ebook_access", "edition_count",
     "edition_key", "format", "publish_date", "lccn", "ia", "oclc", "isbn",
     "contributor", "publish_place", "publisher", "author_key", "author_name",
     "author_alternative_name", "subject", "has_fulltext", "title_suggest",
     "publish_year", "language", "first_publish_year", "lcc", "ddc"}

\* the attributes of OpenLibraryWork without a default
RequiredWorkFields == {"key", "title"}

\* one element of data['docs']: a JSON object with these keys, or another
\* JSON value
DocInputs ==
    {[dict |-> TRUE, keys |-> {"key", "title"}],
     [dict |-> TRUE, keys |-> {"key", "title", "subject", "_version_"}],
     [dict |-> TRUE, keys |-> {"key"}],
     [dict |-> FALSE, keys |-> {}]}

DocLists == UNION {[1..n -> DocInputs] : n \in 0..MaxDocs}

\* the decoded body of /search.json
SearchBodies ==
    {[dict |-> FALSE, has_docs |-> FALSE, docs_list |-> FALSE, docs |-> <<>>],
     [dict |-> TRUE, has_docs |-> FALSE, docs_list |-> FALSE, docs |-> <<>>],
     [dict |-> TRUE, has_docs |-> TRUE, docs_list |-> FALSE, docs |-> <<>>]}
    \cup {[dict |-> TRUE, has_docs |-> TRUE, docs_list |-> TRUE, docs |-> d] :
            d \in DocLists}

NoSearchBody == [dict |-> FALSE, has_docs |-> FALSE, docs_list |-> FALSE, docs |-> <<>>]

SearchResponses ==
    {[http |-> h, data |-> NoSearchBody] : h \in HttpFailures}
    \cup {[http |-> "ok", data |-> d] : d \in SearchBodies}

\* the fields argument of search_books: (), "all", a tuple of names
FieldsInputs == {<<>>, <<"all">>, <<"key", "title">>}

Returns(v) == [exc |-> "none", value |-> v]

Raises(e) == [exc |-> e, value |-> <<>>]

\* [OpenLibraryWork(**doc) for doc in filtered_docs], left to right
RECURSIVE BuildWorks(_)
BuildWorks(docs) ==
    IF docs = <<>> THEN Returns(<<>>)
    ELSE LET doc == Head(docs) IN
         IF ~doc.dict THEN Raises("AttributeError")
         ELSE LET kept == doc.keys \cap WorkFields IN
              IF ~(RequiredWorkFields \subseteq kept) THEN Raises("TypeError")
              ELSE LET rest == BuildWorks(Tail(docs)) IN
                   IF rest.exc # "none" THEN rest
                   ELSE Returns(<<[keys |-> kept]>> \o rest.value)

\* the filtering comprehension runs over every doc before any work is built
RECURSIVE FilterRaises(_)
FilterRaises(docs) ==
    IF docs = <<>> THEN FALSE
    ELSE ~Head(docs).dict \/ FilterRaises(Tail(docs))

\* the try block of search_books
SearchBody(fields, resp) ==
    IF resp.http # "ok" THEN Raises(resp.http)
    ELSE IF ~resp.data.dict THEN Raises("AttributeError")
    ELSE IF ~resp.data.has_docs THEN Returns(<<>>)
    ELSE IF ~resp.data.docs_list THEN Raises("TypeError")
    ELSE IF FilterRaises(resp.data.docs) THEN Raises("AttributeError")
    ELSE BuildWorks(resp.data.docs)

search_books_Uncaught(fields, resp) == SearchBody(fields, resp)

search_books(fields, resp) ==
    LET body == SearchBody(fields, resp) IN
    IF body.exc # "none" THEN Returns(<<>>) ELSE body

\* get_author / get_work: None, or whatever JSON the endpoint answered
AuthorData == {"None", "named", "unnamed", "not_dict"}

WorkData == {"None", "plain", "desc_dict", "no_subjects", "subjects_not_text", "not_dict"}

\* the decoded body of /isbn/<isbn>.json
IsbnBodies ==
    {[dict |-> FALSE, works |-> "absent", authors |-> "absent",
      publishers |-> "absent", covers |-> "absent"]}
    \cup [dict : {TRUE}, works : {"absent", "empty", "keyed", "unkeyed"},
          authors : {"absent", "keyed", "unkeyed"},
          publishers : {"absent", "names", "not_text"},
          covers : {"absent", "one"}]

NoIsbnBody == [dict |-> FALSE, works |-> "absent", authors |-> "absent",
               publishers |-> "absent", covers |-> "absent"]

IsbnResponses ==
    {[http |-> h, data |-> NoIsbnBody, author_data |-> "None", work_data |-> "None"] :
        h \in HttpFailures}
    \cup {[http |-> "ok", data |-> d, author_data |-> a, work_data |-> w] :
            d \in IsbnBodies,
            a \in AuthorData,
            w \in WorkData}

\* the try block of get_book_by_isbn
IsbnBody(resp) ==
    LET d == resp.data IN
    IF resp.http # "ok" THEN Raises(resp.http)
    ELSE IF ~d.dict THEN Raises("TypeError")
    ELSE IF d.works = "unkeyed" THEN Raises("KeyError")
    ELSE IF d.publishers = "not_text" THEN Raises("TypeError")
    ELSE IF d.authors = "unkeyed" THEN Raises("KeyError")
    ELSE IF d.authors = "keyed" /\ resp.author_data = "not_dict"
         THEN Raises("AttributeError")
    ELSE IF d.works = "keyed" /\ resp.work_data = "not_dict"
         THEN Raises("AttributeError")
    ELSE IF d.works = "keyed" /\ resp.work_data = "subjects_not_text"
         THEN Raises("TypeError")
    ELSE Returns(<<[publisher |-> IF d.publishers = "names" THEN "olPublisher" ELSE "",
                    has_author |-> d.authors = "keyed",
                    author |-> IF d.authors = "keyed" /\ resp.author_data = "named"
                               THEN "olAuthor" ELSE "",
                    has_description |-> d.works = "keyed" /\ resp.work_data # "None",
                    genre |-> IF d.works = "keyed"
                                 /\ resp.work_data \in {"plain", "desc_dict"}
                              THEN "olSubject" ELSE "",
                    has_cover |-> d.covers = "one"]>>)

get_book_by_isbn_Uncaught(resp) == IsbnBody(resp)

\* None is the empty sequence, a dict a sequence of one record
get_book_by_isbn(resp) ==
    LET body == IsbnBody(resp) IN
    IF body.exc # "none" THEN Returns(<<>>) ELSE body

IdleLookup ==
    [pc |-> "idle", op |-> "", fields |-> <<>>,
     resp |-> [http |-> "", data |-> NoSearchBody],
     exc |-> "none", value |-> <<>>]

InitLookup ==
    /\ books = <<>>
    /\ imp = [i \in Imports |-> IdleImport]
    /\ fn = IdleLookup

\* the body is one that cannot be turned into works
MalformedSearch(resp) ==
    /\ resp.http = "ok"
    /\ \/ ~resp.data.dict
       \/ resp.data.has_docs /\ ~resp.data.docs_list
       \/ \E k \in 1..Len(resp.data.docs) :
            \/ ~resp.data.docs[k].dict
            \/ ~(RequiredWorkFields \subseteq resp.data.docs[k].keys)

MalformedIsbn(resp) ==
    /\ resp.http = "ok"
    /\ \/ ~resp.data.dict
       \/ resp.data.works = "unkeyed" \/ resp.data.authors = "unkeyed"
       \/ resp.data.publishers = "not_text"
       \/ resp.data.authors = "keyed" /\ resp.author_data = "not_dict"
       \/ resp.data.works = "keyed"
          /\ resp.work_data \in {"not_dict", "subjects_not_text"}

CallSearchBooks(fields, resp) ==
    /\ LET out == search_books(fields, resp) IN
       fn' = [pc |-> "returned", op |-> "search_books", fields |-> fields,
              resp |-> resp, exc |-> out.exc, value |-> out.value]
    /\ UNCHANGED <<books, imp>>

CallGetBookByIsbn(resp) ==
    /\ LET out == get_book_by_isbn(resp) IN
       fn' = [pc |-> "returned", op |-> "get_book_by_isbn", fields |-> <<>>,
              resp |-> resp, exc |-> out.exc, value |-> out.value]
    /\ UNCHANGED <<books, imp>>

NextLookup ==
    \/ \E fields \in FieldsInputs, resp \in SearchResponses :
         CallSearchBooks(fields, resp)
    \/ \E resp \in IsbnResponses : CallGetBookByIsbn(resp)

SpecLookup == InitLookup /\ [][NextLookup]_vars

\* ------------------------------------------------------------------------
\* Properties of the OpenLibrary service
\* ------------------------------------------------------------------------

\* C17: search_books and get_book_by_isbn never let an exception out; when
\* the request fails or the body cannot be read, search_books returns the
\* empty list and get_book_by_isbn returns None.
C17_NoExceptionEscapes ==
    fn.pc = "returned" =>
        /\ fn.exc = "none"
        /\ fn.resp.http # "ok" => fn.value = <<>>
        /\ fn.op = "search_books" /\ MalformedSearch(fn.resp) => fn.value = <<>>
        /\ fn.op = "get_book_by_isbn" /\ MalformedIsbn(fn.resp) => fn.value = <<>>

\* a search whose answer arrived but held a document that cannot be built
\* into a work
C17_Witness ==
    /\ fn.pc = "returned" /\ fn.op = "search_books"
    /\ fn.resp.http = "ok" /\ MalformedSearch(fn.resp)
    /\ fn.exc = "none" /\ fn.value = <<>>

\* ------------------------------------------------------------------------
\* The request handlers that look a book up (bookapp/app.py) and the
\* questionary prompts of bookapp/csv_cli.py
\* ------------------------------------------------------------------------
\* get_book_type: `if out is None and self.ask:` qs.select
BookTypeAsks(work) ==
    /\ ~MentionsNonFiction(LowerAll(work.subject))
    /\ ~\E k \in 1..Len(work.subject) :
          Lower(work.subject[k]) = <<"f", "i", "c", "t", "i", "o", "n">>
    /\ work.ask

\* possible_genres of get_genre
PossibleGenres(work, book_type, top_genre) ==
    LET known == get_genres_from_db(book_type)
        known_names == IF top_genre # NoText THEN DictGet(known, top_genre)
                       ELSE DictKeys(known)
        lower_subjects ==
            {cli_normalize_text(GenreMapGet(cli_normalize_text(work.subject[k]))) :
                k \in 1..Len(work.subject)}
        Matches(g) == cli_normalize_text(g) \in lower_subjects
    IN SelectSeq(known_names, Matches)

\* get_genre: `if possible_genres and self.ask:` qs.select
GenreAsks(work, book_type, top_genre) ==
    LET possible_genres == PossibleGenres(work, book_type, top_genre)
    IN Len(possible_genres) # 1 /\ possible_genres # <<>> /\ work.ask

TopicAsks_Always(work, topics) == work.subjects # <<>>

\* get_topic: `if possible_topics and self.ask:` qs.select
TopicAsks(work, topics) ==
    LET lower_known_topics == SeqRange(LowerAll(topics))
        IsTopic(subj) == Lower(subj) \in lower_known_topics
        NotTopic(subj) == Lower(subj) \notin lower_known_topics
        possible_topics == SelectSeq(work.subjects, IsTopic)
                               \o SelectSeq(work.subjects, NotTopic)
    IN possible_topics # <<>> /\ work.ask

\* whether update_from_openlibrary_work can call questionary: in the
\* classification, in get_topic, or at the final qs.confirm
Questionary(work, quick, topics) ==
    \/ /\ ~(quick /\ ~work.ask)
       /\ \/ BookTypeAsks(work)
          \/ \E bt \in get_book_type(work) \ {NULL} :
               \/ GenreAsks(work, bt, NoText)
               \/ \E g \in get_genre(work, bt, NoText) \ {NoText, <<>>} :
                    GenreAsks(work, bt, g)
    \/ TopicAsks(work, topics)
    \/ ~quick

\* the documents search_books(query=olid, fields='all', limit=1) answers
FoundWorks ==
    {[work |-> w, title |-> T1, author_name |-> an] :
        w \in {x \in WorkInputs : ~x.ask},
        an \in {<<>>, <<<<"x">>>>}}

SearchAnswers == {<<>>} \cup {<<f>> : f \in FoundWorks}

\* CSVBookRecord.from_openlibrary_id: the outcomes it can have
from_openlibrary_id(works, ask, quick, topics) ==
    IF works = <<>>
    THEN {[raised |-> TRUE, prompted |-> FALSE, topics |-> topics, record |-> <<>>]}
    ELSE LET f == works[1]
             wrapper == [f.work EXCEPT !.ask = ask]
             out == CSVBookRecord(f.title,
                                  IF f.author_name # <<>> THEN f.author_name[1] ELSE <<>>)
         IN {[raised |-> FALSE, prompted |-> Questionary(wrapper, quick, topics),
              topics |-> res.topics, record |-> <<res.record>>] :
                res \in UNION {update_from_openlibrary_work(out, wrapper, quick, c, topics) :
                                  c \in BOOLEAN}}

OlidInputs == {NoText, <<>>, <<" ">>, <<"O", "L", "1", "W">>}

IdleServer ==
    [pc |-> "idle", handler |-> "", status |-> 0, prompted |-> FALSE,
     topics |-> TopicTable, request |-> <<>>, body |-> <<>>]

InitServer ==
    /\ books = <<>>
    /\ imp = [i \in Imports |-> IdleImport]
    /\ fn = IdleServer

Respond(handler, request, status, prompted, topics, body) ==
    [pc |-> "responded", handler |-> handler, status |-> status,
     prompted |-> prompted, topics |-> topics, request |-> request, body |-> body]

\* POST /api/fetch-openlibrary-metadata
fetch_openlibrary_metadata(olid_raw, works) ==
    /\ LET olid_arg == Strip(OrEmpty(olid_raw))
           request == <<olid_raw, works>>
       IN IF olid_arg = <<>>
          THEN fn' = Respond("fetch_openlibrary_metadata", request, 400, FALSE,
                             fn.topics, <<>>)
          ELSE \E res \in from_openlibrary_id(works, FALSE, TRUE, fn.topics) :
                  fn' = Respond("fetch_openlibrary_metadata", request,
                                IF res.raised THEN 500 ELSE 200,
                                res.prompted, res.topics, res.record)
    /\ UNCHANGED <<books, imp>>

\* POST /admin/book/enrich
enrich_book_from_title_author(title_raw, author_raw, sr) ==
    /\ LET title == Strip(OrEmpty(title_raw))
           author == Strip(OrEmpty(author_raw))
           request == <<title_raw, author_raw, sr>>
       IN IF title = <<>> \/ author = <<>>
          THEN fn' = Respond("enrich_book_from_title_author", request, 400, FALSE,
                             fn.topics, <<>>)
          ELSE LET en == enrich_book_from_openlibrary(NewBook(title, author), sr)
               IN fn' = Respond("enrich_book_from_title_author", request,
                                IF en.raised THEN 500 ELSE 200, FALSE,
                                fn.topics, <<en.book>>)
    /\ UNCHANGED <<books, imp>>

NextServer ==
    \/ \E olid_raw \in OlidInputs, works \in SearchAnswers :
         fetch_openlibrary_metadata(olid_raw, works)
    \/ \E title_raw \in {NoText, <<>>, <<" ">>, T1, T2}, author_raw \in {NoText, <<>>, <<"x">>},
          sr \in SearchResults :
         enrich_book_from_title_author(title_raw, author_raw, sr)

SpecServer == InitServer /\ [][NextServer]_vars

\* ------------------------------------------------------------------------
\* Properties of the request handlers
\* ------------------------------------------------------------------------

\* C18: no request handler reaches an operator prompt: neither
\* fetch_openlibrary_metadata (from_openlibrary_id with ask=False, quick=True)
\* nor enrich_book_from_title_author calls questionary, and neither adds a
\* topic on an operator's answer.
C18_NoPromptOnServer ==
    /\ ~fn.prompted
    /\ fn.topics = TopicTable

\* a metadata fetch answered 200 for a work whose subjects decide no book
\* type and hold topic candidates: the case where the command-line path asks
C18_Witness ==
    /\ fn.pc = "responded" /\ fn.handler = "fetch_openlibrary_metadata"
    /\ fn.status = 200 /\ ~fn.prompted
    /\ LET w == fn.request[2][1].work
       IN /\ w.subjects # <<>>
          /\ BookTypeAsks([w EXCEPT !.ask = TRUE])
          /\ Questionary([w EXCEPT !.ask = TRUE], TRUE, TopicTable)

\* ------------------------------------------------------------------------
\* Books and their reviews: the handlers that delete books (app.py of the
\* repository root and bookapp/app.py) and the student handlers that create
\* the rows a Book owns
\* ------------------------------------------------------------------------
\* Book.id: allocated in order, never reused
BookIds == 1..(MaxBooks + 1)

InitReviews ==
    /\ books = <<>>
    /\ imp = [i \in Imports |-> IdleImport]
    /\ fn = [pc |-> "catalog", next_id |-> 1, catalog |-> {}, books_read |-> {},
             reviews |-> {}, reviewed |-> {}, flash |-> ""]

\* db.session.add(Book(...)); db.session.commit()
InsertBook ==
    /\ fn.next_id \in BookIds
    /\ fn' = [fn EXCEPT !.catalog = @ \cup {fn.next_id}, !.next_id = @ + 1,
                        !.flash = "Book added"]
    /\ UNCHANGED <<books, imp>>

\* GET /student/mark_read/<book_id> by the current user
mark_book_read(book_id) ==
    /\ book_id \in fn.catalog
    /\ fn' = IF book_id \in fn.books_read
             THEN [fn EXCEPT !.flash = "already read"]
             ELSE [fn EXCEPT !.books_read = @ \cup {book_id}, !.flash = "marked as read"]
    /\ UNCHANGED <<books, imp>>

\* POST /student/review/<book_id> by the current user, form valid; reviewed
\* records the books that ever had a review
create_review(book_id) ==
    /\ book_id \in fn.catalog
    /\ fn' = IF book_id \notin fn.books_read
             THEN [fn EXCEPT !.flash = "must mark as read"]
             ELSE IF book_id \in fn.reviews
                  THEN [fn EXCEPT !.flash = "Review updated"]
                  ELSE [fn EXCEPT !.reviews = @ \cup {book_id},
                                  !.reviewed = @ \cup {book_id},
                                  !.flash = "Review submitted"]
    /\ UNCHANGED <<books, imp>>

\* Book.has_reviews
has_reviews(book_id) == Cardinality({r \in fn.reviews : r = book_id}) > 0

\* db.session.delete(book) / Book.query...delete(): the rows of
\* books_read and reviews go with the book (cascade='all, delete-orphan')
DeleteBooks(f, ids) ==
    [f EXCEPT !.catalog = @ \ ids, !.books_read = @ \ ids, !.reviews = @ \ ids]

\* bookapp/app.py: POST /admin/book/<book_id>/delete
delete_book(book_id) ==
    /\ book_id \in fn.catalog
    /\ fn' = IF has_reviews(book_id)
             THEN [fn EXCEPT !.flash = "Cannot delete"]
             ELSE [DeleteBooks(fn, {book_id}) EXCEPT !.flash = "Book deleted"]
    /\ UNCHANGED <<books, imp>>

\* app.py of the repository root: POST /admin/book/<book_id>/delete
root_delete_book(book_id) ==
    /\ book_id \in fn.catalog
    /\ fn' = [DeleteBooks(fn, {book_id}) EXCEPT !.flash = "Book deleted"]
    /\ UNCHANGED <<books, imp>>

\* bookapp/app.py: POST /admin/books/bulk-action; the set_* actions update
\* a column of the selected rows
bulk_book_action(action, book_ids) ==
    /\ fn' = IF book_ids = {} THEN [fn EXCEPT !.flash = "No books selected"]
             ELSE IF action = "delete"
                  THEN LET books_with_reviews == {b \in book_ids \cap fn.catalog :
                                                     has_reviews(b)}
                       IN IF books_with_reviews # {}
                          THEN [fn EXCEPT !.flash = "Cannot delete"]
                          ELSE [DeleteBooks(fn, book_ids) EXCEPT !.flash = "bulk deleted"]
                  ELSE IF action \in {"set_type", "set_owned", "set_genre"}
                       THEN [fn EXCEPT !.flash = "bulk updated"]
                       ELSE [fn EXCEPT !.flash = "Invalid action"]
    /\ UNCHANGED <<books, imp>>

BulkActions == {"delete", "set_type", "set_owned", "set_genre", "merge"}

NextReviews ==
    \/ InsertBook
    \/ \E book_id \in BookIds : mark_book_read(book_id)
    \/ \E book_id \in BookIds : create_review(book_id)
    \/ \E book_id \in BookIds : delete_book(book_id)
    \/ \E book_id \in BookIds : root_delete_book(book_id)
    \/ \E action \in BulkActions, book_ids \in SUBSET BookIds :
         bulk_book_action(action, book_ids)

SpecReviews == InitReviews /\ [][NextReviews]_vars

\* ------------------------------------------------------------------------
\* Properties of book deletion
\* ------------------------------------------------------------------------

\* C19: a book that has a review is never removed: every book that ever
\* received a review is still in the catalog, whatever admin operations ran.
C19_AsClaimed == fn.reviewed \subseteq fn.catalog

\* ------------------------------------------------------------------------
\* The taxonomy admin handlers of bookapp/app.py.  The Genre table is a
\* sequence of rows, each with its SubGenre rows; the books are the
\* classification columns of the Book rows.
\* ------------------------------------------------------------------------
ClassifiedBooks ==
    {[genre |-> Fantasy, sub_genre |-> Epic, topic |-> Magic],
     [genre |-> NoText, sub_genre |-> Urban, topic |-> NoText],
     [genre |-> Crime, sub_genre |-> NoText, topic |-> NoText],
     [genre |-> History, sub_genre |-> Heist, topic |-> Magic]}

InitTaxonomy ==
    /\ books = <<>>
    /\ imp = [i \in Imports |-> IdleImport]
    /\ fn \in {[pc |-> "taxonomy", genres |-> GenreTable, topics |-> TopicTable,
                books |-> bs, flash |-> ""] :
                  bs \in {x \in SUBSET ClassifiedBooks : Cardinality(x) <= MaxBooks}}

\* the sequence without its k-th element
RemoveAt(s, k) == SubSeq(s, 1, k - 1) \o SubSeq(s, k + 1, Len(s))

\* POST /admin/genre/<genre_id>/delete: the SubGenre rows of the genre are
\* deleted with it (Genre.sub_genres, cascade='all, delete-orphan')
delete_genre(genre_id) ==
    /\ genre_id \in 1..Len(fn.genres)
    /\ LET genre == fn.genres[genre_id]
           books_with_genre == Cardinality({b \in fn.books : b.genre = genre.name})
       IN fn' = IF books_with_genre > 0
                THEN [fn EXCEPT !.flash = "Cannot delete genre"]
                ELSE [fn EXCEPT !.genres = RemoveAt(@, genre_id),
                                !.flash = "Genre deleted"]
    /\ UNCHANGED <<books, imp>>

\* POST /admin/subgenre/<subgenre_id>/delete
delete_subgenre(genre_id, subgenre_id) ==
    /\ genre_id \in 1..Len(fn.genres)
    /\ subgenre_id \in 1..Len(fn.genres[genre_id].sub_genres)
    /\ LET subgenre == fn.genres[genre_id].sub_genres[subgenre_id]
           books_with_subgenre == Cardinality({b \in fn.books : b.sub_genre = subgenre})
       IN fn' = IF books_with_subgenre > 0
                THEN [fn EXCEPT !.flash = "Cannot delete sub-genre"]
                ELSE [fn EXCEPT !.genres[genre_id].sub_genres = RemoveAt(@, subgenre_id),
                                !.flash = "Sub-genre deleted"]
    /\ UNCHANGED <<books, imp>>

\* POST /admin/topic/<topic_id>/delete
delete_topic(topic_id) ==
    /\ topic_id \in 1..Len(fn.topics)
    /\ LET topic == fn.topics[topic_id]
           books_with_topic == Cardinality({b \in fn.books : b.topic = topic})
       IN fn' = IF books_with_topic > 0
                THEN [fn EXCEPT !.flash = "Cannot delete topic"]
                ELSE [fn EXCEPT !.topics = RemoveAt(@, topic_id),
                                !.flash = "Topic deleted"]
    /\ UNCHANGED <<books, imp>>

NextTaxonomy ==
    \/ \E genre_id \in 1..Len(GenreTable) : delete_genre(genre_id)
    \/ \E genre_id \in 1..Len(GenreTable), subgenre_id \in 1..2 :
         delete_subgenre(genre_id, subgenre_id)
    \/ \E topic_id \in 1..Len(TopicTable) : delete_topic(topic_id)

SpecTaxonomy == InitTaxonomy /\ [][NextTaxonomy]_vars

\* ------------------------------------------------------------------------
\* Properties of the taxonomy admin
\* ------------------------------------------------------------------------
GenreNames(genres) == {genres[k].name : k \in 1..Len(genres)}

SubGenreNames(genres) == UNION {SeqRange(genres[k].sub_genres) : k \in 1..Len(genres)}

\* C20: no taxonomy value a Book references is removed: every genre,
\* sub-genre and topic of the initial taxonomy that some book names in its
\* genre, sub_genre or topic column is still in the taxonomy.
C20_AsClaimed ==
    \A b \in fn.books :
        /\ b.genre \in GenreNames(GenreTable) => b.genre \in GenreNames(fn.genres)
        /\ b.sub_genre \in SubGenreNames(GenreTable)
              => b.sub_genre \in SubGenreNames(fn.genres)
        /\ b.topic \in SeqRange(TopicTable) => b.topic \in SeqRange(fn.topics)

\* ------------------------------------------------------------------------
\* bookapp/csv_cli.py: get_best_bet_genres_from_subjects run against any
\* content of the Genre table, with the places where it could raise
\* ------------------------------------------------------------------------
MaxTags == 3

\* subject tags of the works classified
TagInputs ==
    {<<"f", "i", "c", "t", "i", "o", "n">>,
     <<"S", "c", "i", "e", "n", "c", "e", " ", "F", "i", "c", "t", "i", "o", "n">>,
     <<"N", "o", "n", "f", "i", "c", "t", "i", "o", "n", " ", "b", "o", "o", "k", "s">>,
     <<"f", "a", "n", "t", "a", "s", "y">>,
     Crime,
     <<"U", "R", "B", "A", "N">>,
     Epic,
     Heist,
     <<"d", "r", "a", "g", "o", "n", "s">>}

TagLists == UNION {[1..n -> TagInputs] : n \in 0..MaxTags}

\* a Genre table with names that differ only in case (uq_book_type_genre is
\* case-sensitive)
CaseGenreTable ==
    <<[book_type |-> "Non-Fiction", name |-> <<"f", "a", "n", "t", "a", "s", "y">>,
       sub_genres |-> <<Heist>>],
      [book_type |-> "Fiction", name |-> Fantasy, sub_genres |-> <<Urban, Epic>>],
      [book_type |-> "Fiction", name |-> <<"f", "a", "n", "t", "a", "s", "y">>,
       sub_genres |-> <<>>]>>

GenreTables == {<<>>, GenreTable, CaseGenreTable}

\* get_genres_from_db(book_type) on the given Genre table
genres_from_table(genre_table, book_type) ==
    LET OfType(g) == g.book_type = book_type
        genres == SelectSeq(genre_table, OfType)
    IN [k \in 1..Len(genres) |-> [name |-> genres[k].name, sub_genres |-> genres[k].sub_genres]]

best_bet_book_type_Substring(lower_subjects) ==
    IF MentionsNonFiction(lower_subjects) THEN "Non-Fiction"
    ELSE IF \E k \in 1..Len(lower_subjects) :
               Contains(lower_subjects[k], <<"f", "i", "c", "t", "i", "o", "n">>)
         THEN "Fiction"
    ELSE NULL

\* lines 73-76
best_bet_book_type(lower_subjects) ==
    IF MentionsNonFiction(lower_subjects) THEN "Non-Fiction"
    ELSE IF <<"f", "i", "c", "t", "i", "o", "n">> \in SeqRange(lower_subjects) THEN "Fiction"
    ELSE NULL

norm_map_Lower(keys, g) == g

\* norm_map[g], norm_map = dict(zip(lower_known_genres, known_genres.keys()))
norm_map(keys, g) ==
    keys[CHOOSE k \in 1..Len(keys) :
           /\ Lower(keys[k]) = g
           /\ \A l \in (k + 1)..Len(keys) : Lower(keys[l]) # g]

\* the results the classifier can give: Genre.query.filter_by(name=genre)
\* .first() has no ORDER BY, so any row of that name can be the first
best_bet_genres(genre_table, subjects) ==
    LET lower_subjects == LowerAll(subjects)
        book_type == best_bet_book_type(lower_subjects)
        known_genres == IF book_type # NULL THEN genres_from_table(genre_table, book_type)
                        ELSE DictMerge(genres_from_table(genre_table, "Fiction"),
                                       genres_from_table(genre_table, "Non-Fiction"))
        keys == DictKeys(known_genres)
        IsKnown(g) == g \in SeqRange(LowerAll(keys))
        matched == SelectSeq(lower_subjects, IsKnown)
        possible_genres == [k \in 1..Len(matched) |-> norm_map(keys, matched[k])]
        genre == IF possible_genres # <<>> THEN possible_genres[1] ELSE NoText
        known_sub_genres == IF genre # NoText THEN DictGet(known_genres, genre) ELSE <<>>
        InSubjects(sg) == Lower(sg) \in SeqRange(lower_subjects)
        possible_sub_genres == SelectSeq(known_sub_genres, InSubjects)
        sub_genre == IF possible_sub_genres # <<>> THEN possible_sub_genres[1] ELSE NoText
        rows == {k \in 1..Len(genre_table) : genre_table[k].name = genre}
    IN IF genre # NoText /\ ~DictHas(known_genres, genre) THEN {Raises("KeyError")}
       ELSE IF book_type # NULL \/ genre = NoText
            THEN {Returns([book_type |-> book_type, genre |-> genre,
                           sub_genre |-> sub_genre])}
       ELSE IF rows = {} THEN {Raises("AttributeError")}
       ELSE {Returns([book_type |-> genre_table[k].book_type, genre |-> genre,
                      sub_genre |-> sub_genre]) : k \in rows}

InitClassify ==
    /\ books = <<>>
    /\ imp = [i \in Imports |-> IdleImport]
    /\ fn \in {[pc |-> "classify_call", genre_table |-> t, subjects |-> sj,
                out |-> Returns([book_type |-> NULL, genre |-> NoText,
                                 sub_genre |-> NoText])] :
                  t \in GenreTables, sj \in TagLists}

ClassifySubjects ==
    /\ fn.pc = "classify_call"
    /\ \E out \in best_bet_genres(fn.genre_table, fn.subjects) :
         fn' = [fn EXCEPT !.pc = "classify_ret", !.out = out]
    /\ UNCHANGED <<books, imp>>

NextClassify == ClassifySubjects

SpecClassify == InitClassify /\ [][NextClassify]_vars

\* ------------------------------------------------------------------------
\* Properties of the classifier
\* ------------------------------------------------------------------------
AllAbsent == [book_type |-> NULL, genre |-> NoText, sub_genre |-> NoText]

\* C21: the classifier never raises, for any subject tags and any content
\* of the Genre table, and on an empty subject list it returns book_type,
\* genre and sub_genre all absent.
C21_NeverRaises ==
    fn.pc = "classify_ret" =>
        /\ fn.out.exc = "none"
        /\ fn.subjects = <<>> => fn.out.value = AllAbsent

\* an empty subject list classified against a populated Genre table
C21_Witness ==
    /\ fn.pc = "classify_ret" /\ fn.subjects = <<>> /\ fn.genre_table # <<>>
    /\ fn.out.exc = "none" /\ fn.out.value = AllAbsent

\* ------------------------------------------------------------------------
\* normalize_text (book_import_service.py and csv_cli.py) applied to its own
\* result
\* ------------------------------------------------------------------------
MaxLen == 3

TextChars == {"A", "b", "1", "_", " ", "\t", "!"}

TextInputs == {NoText} \cup UNION {[1..n -> TextChars] : n \in 0..MaxLen}

InitNormalize ==
    /\ books = <<>>
    /\ imp = [i \in Imports |-> IdleImport]
    /\ fn \in {[pc |-> "normalize_call", of |-> f, text |-> t, once |-> <<>>,
                twice |-> <<>>] :
                  f \in {"BookImportService", "csv_cli"}, t \in TextInputs}

\* BookImportService.normalize_text(BookImportService.normalize_text(text))
NormalizeService ==
    /\ fn.pc = "normalize_call" /\ fn.of = "BookImportService"
    /\ fn' = [fn EXCEPT !.pc = "normalize_ret", !.once = normalize_text(fn.text),
                        !.twice = normalize_text(normalize_text(fn.text))]
    /\ UNCHANGED <<books, imp>>

\* csv_cli.normalize_text(csv_cli.normalize_text(text))
NormalizeCli ==
    /\ fn.pc = "normalize_call" /\ fn.of = "csv_cli"
    /\ fn' = [fn EXCEPT !.pc = "normalize_ret", !.once = cli_normalize_text(fn.text),
                        !.twice = cli_normalize_text(cli_normalize_text(fn.text))]
    /\ UNCHANGED <<books, imp>>

NextNormalize == NormalizeService \/ NormalizeCli

SpecNormalize == InitNormalize /\ [][NextNormalize]_vars

\* ------------------------------------------------------------------------
\* Properties of normalize_text
\* ------------------------------------------------------------------------

\* C22: normalize_text is idempotent and total: normalising a normalised
\* string changes nothing, and empty or absent input gives the empty string.
C22_Idempotent ==
    fn.pc = "normalize_ret" =>
        /\ fn.twice = fn.once
        /\ fn.text \in {NoText, <<>>} => fn.once = <<>>

\* a text with upper case, punctuation and white space to remove, in the
\* import service
C22_Witness ==
    /\ fn.pc = "normalize_ret" /\ fn.of = "BookImportService"
    /\ fn.text = <<"A", "\t", "!">>
    /\ fn.once = <<"a">> /\ fn.twice = <<"a">>

\* ------------------------------------------------------------------------
\* Properties of the order of the row stages
\* ------------------------------------------------------------------------
\* the grade or the owned column of the row cannot be parsed
Malformed(row) == BadGrade(row) \/ row.owned \notin OwnedSpec \cup {""}

\* C23 as claimed: a row is parsed before it is checked for duplicates: a
\* row with a malformed grade or owned value is reported as malformed
\* (invalid grade or invalid owned value), also when it is a duplicate.
C23_AsClaimed ==
    ~fn.skip /\ imp[1].has_cols =>
        \A k \in 1..Len(fn.rows) :
            Malformed(fn.rows[k].row) =>
                \A e \in ErrorsOfRow(imp[1], k + 1) :
                    e.kind \in {"invalid_grade", "invalid_owned"}

\* ------------------------------------------------------------------------
\* Properties of the automatic classification
\* ------------------------------------------------------------------------
\* the positions of the subject tags that equal one of the names, ignoring
\* case
MatchingTags(subjects, names) ==
    {k \in 1..Len(subjects) : \E n \in names : Lower(subjects[k]) = Lower(n)}

Earliest(positions) == CHOOSE k \in positions : \A l \in positions : k <= l

\* the genre names the tags are compared with: those of the inferred book
\* type, or of both types when the tags give none
KnownGenreNames(genre_table, subjects) ==
    LET bt == best_bet_book_type(LowerAll(subjects))
    IN {genre_table[k].name : k \in {l \in 1..Len(genre_table) :
                                        bt = NULL \/ genre_table[l].book_type = bt}}

\* the sub-genres of the (book_type, genre) entry
SubGenresOf(genre_table, book_type, genre) ==
    UNION {SeqRange(genre_table[k].sub_genres) :
              k \in {l \in 1..Len(genre_table) :
                        /\ genre_table[l].book_type = book_type
                        /\ genre_table[l].name = genre}}

\* the genre is the one matched by the earliest matching subject tag
GenreByEarliestTag ==
    LET tags == MatchingTags(fn.subjects, KnownGenreNames(fn.genre_table, fn.subjects))
    IN tags # {} => Lower(fn.out.value.genre) = Lower(fn.subjects[Earliest(tags)])

\* C24 as claimed: when several subject tags match, the genre is the one
\* matched by the earliest tag in input order, and the sub-genre is the one
\* matched by the earliest tag among the sub-genres of the chosen genre.
C24_AsClaimed ==
    fn.pc = "classify_ret" /\ fn.out.exc = "none" =>
        /\ GenreByEarliestTag
        /\ LET tags == MatchingTags(fn.subjects,
                                    SubGenresOf(fn.genre_table, fn.out.value.book_type,
                                                fn.out.value.genre))
           IN fn.out.value.genre # NoText /\ tags # {} =>
                 Lower(fn.out.value.sub_genre) = Lower(fn.subjects[Earliest(tags)])

\* C25 as claimed: every classifier result is consistent with the taxonomy:
\* a genre comes with a book type and (book_type, genre) is an entry of the
\* Genre table; a sub-genre comes with a genre and is a sub-genre of that
\* same entry.
C25_AsClaimed ==
    fn.pc = "classify_ret" /\ fn.out.exc = "none" =>
        LET v == fn.out.value
        IN /\ v.genre # NoText =>
                /\ v.book_type # NULL
                /\ \E k \in 1..Len(fn.genre_table) :
                      /\ fn.genre_table[k].book_type = v.book_type
                      /\ fn.genre_table[k].name = v.genre
           /\ v.sub_genre # NoText =>
                /\ v.genre # NoText
                /\ v.sub_genre \in SubGenresOf(fn.genre_table, v.book_type, v.genre)

\* the book type the subject tags call for
TypeOfTags(subjects) ==
    LET Has(k, sub) == Contains(Lower(subjects[k]), sub)
    IN IF \E k \in 1..Len(subjects) :
            \/ Has(k, <<"n", "o", "n", "-", "f", "i", "c", "t", "i", "o", "n">>)
            \/ Has(k, <<"n", "o", "n", "f", "i", "c", "t", "i", "o", "n">>)
            \/ Has(k, <<"n", "o", "n", " ", "f", "i", "c", "t", "i", "o", "n">>)
       THEN "Non-Fiction"
       ELSE IF \E k \in 1..Len(subjects) :
                  Lower(subjects[k]) = <<"f", "i", "c", "t", "i", "o", "n">>
            THEN "Fiction"
       ELSE NULL

\* C26: the book type inferred from the tags is Non-Fiction when a tag
\* contains non-fiction, nonfiction or non fiction, else Fiction when a tag
\* is exactly fiction, else unset (a tag that only contains fiction, such as
\* Science Fiction, does not make it Fiction); the classifier changes it
\* only by the back-fill from a genre it found.
C26_TypeFromTags ==
    fn.pc = "classify_ret" /\ fn.out.exc = "none" =>
        LET claimed == TypeOfTags(fn.subjects)
        IN /\ claimed # NULL => fn.out.value.book_type = claimed
           /\ claimed = NULL /\ fn.out.value.genre = NoText
                 => fn.out.value.book_type = NULL
           /\ get_book_type([subject |-> fn.subjects, ask |-> FALSE]) = {claimed}

\* the single tag Science Fiction, which names no genre of the table: no
\* book type
C26_Witness ==
    /\ fn.pc = "classify_ret" /\ fn.genre_table = GenreTable
    /\ fn.subjects = <<<<"S", "c", "i", "e", "n", "c", "e", " ", "F", "i", "c", "t", "i", "o", "n">>>>
    /\ fn.out.value.book_type = NULL

\* the subject tags with the alternative-name map applied
MappedTags(subjects) == [k \in 1..Len(subjects) |-> GenreMapGet(Lower(subjects[k]))]

\* C27 as claimed: the alternative-name map is applied to each subject tag
\* before it is compared with the genre names: the genre returned is the
\* one matched by the earliest tag after mapping, so a tag that is an
\* alternative name of a known genre gives that genre.
C27_AsClaimed ==
    fn.pc = "classify_ret" /\ fn.out.exc = "none" =>
        LET mapped == MappedTags(fn.subjects)
            tags == MatchingTags(mapped, KnownGenreNames(fn.genre_table, fn.subjects))
        IN tags # {} => Lower(fn.out.value.genre) = Lower(mapped[Earliest(tags)])

\* ------------------------------------------------------------------------
\* Properties of the topic and of the prompts
\* ------------------------------------------------------------------------
\* C28 as claimed: without an operator (quick, not asking), a work with a
\* subject tag that equals a known topic ignoring case gets that topic, and
\* a work without such a tag leaves the record's topic as it was.
C28_AsClaimed ==
    fn.pc = "merge_ret" /\ fn.quick /\ ~fn.work.ask /\ fn.self.topic = NoText =>
        LET tags == MatchingTags(fn.work.subjects, SeqRange(TopicTable))
        IN /\ tags # {} =>
                \E k \in tags : Lower(fn.out.topic) = Lower(fn.work.subjects[k])
           /\ tags = {} => fn.out.topic = NoText

\* ------------------------------------------------------------------------
\* bookapp/csv_cli.py: the classification of update_from_openlibrary_work
\* when it does not take the best-bet branch, with the prompts it shows
\* ------------------------------------------------------------------------
InitPrompts ==
    /\ books = <<>>
    /\ imp = [i \in Imports |-> IdleImport]
    /\ fn \in {[pc |-> "prompt_call", work |-> w, topics |-> TopicTable,
                prompts |-> {}, book_type |-> NULL, genre |-> NoText,
                sub_genre |-> NoText, topic |-> NoText] : w \in WorkInputs}

\* lines 279-289 with quick=False: get_book_type, get_genre twice, get_topic;
\* prompts are the qs.select calls made on the way
ClassifyInteractive ==
    /\ fn.pc = "prompt_call"
    /\ \E bt \in get_book_type(fn.work) :
         \E g \in IF bt # NULL THEN get_genre(fn.work, bt, NoText) ELSE {NoText} :
           \E sg \in IF g # NoText /\ g # <<>> THEN get_genre(fn.work, bt, g) ELSE {NoText} :
             \E tp \in get_topic(fn.work, fn.topics) :
               fn' = [fn EXCEPT
                        !.pc = "prompt_ret", !.book_type = bt, !.genre = g,
                        !.sub_genre = sg, !.topic = tp.topic, !.topics = tp.topics,
                        !.prompts =
                            {x \in {"book_type"} : BookTypeAsks(fn.work)}
                            \cup {x \in {"genre"} :
                                    bt # NULL /\ GenreAsks(fn.work, bt, NoText)}
                            \cup {x \in {"sub_genre"} :
                                    g # NoText /\ g # <<>> /\ GenreAsks(fn.work, bt, g)}
                            \cup {x \in {"topic"} : TopicAsks(fn.work, fn.topics)}]
    /\ UNCHANGED <<books, imp>>

NextPrompts == ClassifyInteractive

SpecPrompts == InitPrompts /\ [][NextPrompts]_vars

\* the genres of the book type that a subject tag names, directly or through
\* the alternative-name map
CandidateGenres(work, book_type) ==
    {n \in KnownGenreNames(GenreTable, <<>>) :
        /\ \E k \in 1..Len(GenreTable) :
              GenreTable[k].book_type = book_type /\ GenreTable[k].name = n
        /\ \E k \in 1..Len(work.subject) :
              cli_normalize_text(GenreMapGet(cli_normalize_text(work.subject[k])))
                  = cli_normalize_text(n)}

\* the known topics that a subject tag names, ignoring case
CandidateTopics(work, topics) ==
    {t \in SeqRange(topics) : \E k \in 1..Len(work.subjects) :
                                  Lower(work.subjects[k]) = Lower(t)}

\* C29 as claimed: with an operator asking, a prompt is shown for the book
\* type, the genre and the topic exactly when the automatic match gives zero
\* or several candidates; a single match is used without a prompt.
C29_AsClaimed ==
    fn.pc = "prompt_ret" /\ fn.work.ask =>
        /\ "book_type" \in fn.prompts <=> TypeOfTags(fn.work.subject) = NULL
        /\ fn.book_type # NULL =>
              LET cands == CandidateGenres(fn.work, fn.book_type)
              IN /\ "genre" \in fn.prompts <=> Cardinality(cands) # 1
                 /\ Cardinality(cands) = 1 => fn.genre \in cands
        /\ LET cands == CandidateTopics(fn.work, TopicTable)
           IN /\ "topic" \in fn.prompts <=> Cardinality(cands) # 1
              /\ Cardinality(cands) = 1 => Lower(fn.topic) \in {Lower(t) : t \in cands}

\* ------------------------------------------------------------------------
\* bookapp/csv_cli.py: the enrich command and its cache file
\* ------------------------------------------------------------------------
MaxCsvRows == 2
MaxRuns == 3

CsvRowInputs == {"row_a", "row_b"}

CsvInputs == UNION {[1..n -> CsvRowInputs] : n \in 0..MaxCsvRows}

\* enrich_csv_record: the record of the row, returned as it was read or
\* updated from the work that was found
enrich_csv_record(row) == {[row |-> row, enriched |-> e] : e \in BOOLEAN}

NoCacheFile == [exists |-> FALSE, torn |-> FALSE, records |-> <<>>]

\* a run of the command about to start on a given input file
StartRun(input, cache, output, runs) ==
    [pc |-> "enrich_start", input |-> input, cache |-> cache, output |-> output,
     records |-> <<>>, i |-> 0, loaded |-> 0, skipped |-> {}, called |-> {},
     runs |-> runs]

InitCli ==
    /\ books = <<>>
    /\ imp = [i \in Imports |-> IdleImport]
    /\ fn \in {StartRun(input, NoCacheFile, <<"NULL">>, 1) : input \in CsvInputs}

\* lines 389-394: records = pickle.load(cachefile) when the cache exists;
\* a file without a complete pickle makes pickle.load raise
LoadCache ==
    /\ fn.pc = "enrich_start"
    /\ fn' = IF fn.cache.exists /\ fn.cache.torn
             THEN [fn EXCEPT !.pc = "enrich_raised"]
             ELSE [fn EXCEPT !.pc = "enrich_loop",
                             !.records = fn.cache.records,
                             !.loaded = Len(fn.cache.records)]
    /\ UNCHANGED <<books, imp>>

\* lines 400-404: a row whose index is below len(records) is passed over
SkipRow ==
    /\ fn.pc = "enrich_loop"
    /\ fn.i < Len(fn.input)
    /\ fn.i < Len(fn.records)
    /\ fn' = [fn EXCEPT !.i = fn.i + 1, !.skipped = fn.skipped \cup {fn.i}]
    /\ UNCHANGED <<books, imp>>

\* lines 406-407: the row is enriched and its record appended
EnrichRow ==
    /\ fn.pc = "enrich_loop"
    /\ fn.i < Len(fn.input)
    /\ fn.i >= Len(fn.records)
    /\ \E rec \in enrich_csv_record(fn.input[fn.i + 1]) :
         fn' = [fn EXCEPT !.pc = "enrich_open_cache",
                          !.records = Append(fn.records, rec),
                          !.called = fn.called \cup {fn.i}]
    /\ UNCHANGED <<books, imp>>

\* line 409: open(cache_path, "wb") creates the file or empties it
OpenCache ==
    /\ fn.pc = "enrich_open_cache"
    /\ fn' = [fn EXCEPT !.pc = "enrich_dump",
                        !.cache = [exists |-> TRUE, torn |-> TRUE, records |-> <<>>]]
    /\ UNCHANGED <<books, imp>>

\* line 410: pickle.dump(records, cachefile), then the next row
DumpCache ==
    /\ fn.pc = "enrich_dump"
    /\ fn' = [fn EXCEPT !.pc = "enrich_loop", !.i = fn.i + 1,
                        !.cache = [exists |-> TRUE, torn |-> FALSE,
                                   records |-> fn.records]]
    /\ UNCHANGED <<books, imp>>

\* lines 412-416: after the last row the records are written to output_csv
WriteOutput ==
    /\ fn.pc = "enrich_loop"
    /\ fn.i >= Len(fn.input)
    /\ fn' = [fn EXCEPT !.pc = "enrich_done", !.output = fn.records]
    /\ UNCHANGED <<books, imp>>

\* the process is stopped at any statement of a run, or has finished, and the
\* command is started again on the same input; only the files survive
Restart ==
    /\ fn.pc \in {"enrich_loop", "enrich_open_cache", "enrich_dump", "enrich_done"}
    /\ fn.runs < MaxRuns
    /\ fn' = StartRun(fn.input, fn.cache, fn.output, fn.runs + 1)
    /\ UNCHANGED <<books, imp>>

NextCli ==
    \/ LoadCache
    \/ SkipRow
    \/ EnrichRow
    \/ OpenCache
    \/ DumpCache
    \/ WriteOutput
    \/ Restart

SpecCli == InitCli /\ [][NextCli]_vars

\* a run that was not interrupted writes, for every input row in order, a
\* record that enrich_csv_record can return for that row
UninterruptedOutputs(input) ==
    {out \in [1..Len(input) -> UNION {enrich_csv_record(r) : r \in CsvRowInputs}] :
        \A k \in 1..Len(input) : out[k] \in enrich_csv_record(input[k])}

\* what holds of a resumed run as long as the cache file it finds is whole
ResumesFromWholeCache ==
    /\ fn.pc = "enrich_loop" => fn.cache.records = fn.records /\ ~fn.cache.torn
    /\ fn.pc \in {"enrich_loop", "enrich_done"} =>
          /\ fn.skipped = {k \in 0..(fn.i - 1) : k < fn.loaded}
          /\ fn.called = {k \in 0..(fn.i - 1) : k >= fn.loaded}
    /\ fn.pc = "enrich_done" => fn.output \in UninterruptedOutputs(fn.input)

\* C30 as claimed: the enrich command can be resumed through its cache: a
\* restarted run loads the cache, the cache holds the records after every
\* processed row, exactly the rows below the cached count are skipped and not
\* enriched again, and the output equals that of an uninterrupted run.
C30_AsClaimed ==
    /\ fn.pc # "enrich_raised"
    /\ ResumesFromWholeCache

====
